---- MODULE Spec2Model ----
(***************************************************************************)
(* YAML serializer of dcyfr-ai-kubernetes (src/utils/yaml.ts).             *)
(*                                                                         *)
(* Text is a sequence of one-character strings.  A JavaScript value is a   *)
(* record: t is its runtime type tag, the other field its payload.  An    *)
(* object is the sequence of its <<key, value>> properties in the order in *)
(* which the keys were inserted; the order in which the program sees them  *)
(* is ObjectEntries.                                                       *)
(***************************************************************************)
EXTENDS Integers, Sequences, FiniteSets, TLC

VARIABLES input, output, op

vars == <<input, output, op>>

\* ------------------------------------------------------------------ bounds

\* Largest number of nodes (containers, scalars, absent entries) of a
\* generated input value.
MaxNodes == 4

\* Longest string over Alphabet among the scalar inputs.
MaxStrLen == 2

\* ------------------------------------------------------------------ values

Null == [t |-> "null"]
Undefined == [t |-> "undefined"]
Bool(b) == [t |-> "boolean", b |-> b]
Num(n) == [t |-> "number", n |-> n]
Str(s) == [t |-> "string", s |-> s]
Arr(items) == [t |-> "array", items |-> items]
Obj(props) == [t |-> "object", props |-> props]

NL == "\n"
DQ == "\""
BS == "\\"

DigitChars == <<"0", "1", "2", "3", "4", "5", "6", "7", "8", "9">>

IsDigit(c) == \E i \in 1..10 : DigitChars[i] = c

DigitValue(c) == (CHOOSE i \in 1..10 : DigitChars[i] = c) - 1

\* ------------------------------------------------------------- text helpers

RECURSIVE Join(_, _)
\* Array.prototype.join
Join(lines, sep) ==
  IF Len(lines) = 0 THEN <<>>
  ELSE IF Len(lines) = 1 THEN lines[1]
  ELSE lines[1] \o sep \o Join(Tail(lines), sep)

\* String.prototype.indexOf for a single character: 0-based, -1 when absent
IndexOf(s, c) ==
  IF \E i \in 1..Len(s) : s[i] = c
  THEN (CHOOSE i \in 1..Len(s) : s[i] = c /\ \A j \in 1..(i - 1) : s[j] # c) - 1
  ELSE -1

\* String.prototype.slice(from, to), 0-based, to exclusive
Slice(s, from, to) == SubSeq(s, from + 1, to)

RECURSIVE Split(_, _)
\* String.prototype.split on a single character
Split(s, c) ==
  LET i == IndexOf(s, c)
  IN IF i = -1 THEN <<s>>
     ELSE <<Slice(s, 0, i)>> \o Split(Slice(s, i + 1, Len(s)), c)

Includes(s, c) == \E i \in 1..Len(s) : s[i] = c

StartsWith(s, c) == Len(s) > 0 /\ s[1] = c

RECURSIVE ReplaceAll(_, _, _)
\* String.prototype.replace(/c/g, r) for a single character c
ReplaceAll(s, c, r) ==
  IF Len(s) = 0 THEN <<>>
  ELSE (IF s[1] = c THEN r ELSE <<s[1]>>) \o ReplaceAll(Tail(s), c, r)

RECURSIVE NatToString(_)
NatToString(n) ==
  IF n < 10 THEN <<DigitChars[n + 1]>>
  ELSE NatToString(n \div 10) \o <<DigitChars[(n % 10) + 1]>>

\* String(n) for an integer number
NumberToString(n) == IF n < 0 THEN <<"-">> \o NatToString(-n) ELSE NatToString(n)

\* ---------------------------------------------------------------- yaml.ts

pad(n) == [i \in 1..n |-> " "]

\* quoteString with its two replace calls in the other order
quoteString_QuoteFirst(s) ==
  IF \/ s = <<>>
     \/ Includes(s, ":")
     \/ Includes(s, "#")
     \/ Includes(s, NL)
     \/ Includes(s, DQ)
     \/ Includes(s, "'")
     \/ StartsWith(s, "{")
     \/ StartsWith(s, "[")
     \/ StartsWith(s, "*")
     \/ StartsWith(s, "&")
     \/ s = <<"t", "r", "u", "e">>
     \/ s = <<"f", "a", "l", "s", "e">>
     \/ s = <<"n", "u", "l", "l">>
     \/ s = <<"y", "e", "s">>
     \/ s = <<"n", "o">>
     \/ (Len(s) > 0 /\ \A i \in 1..Len(s) : IsDigit(s[i]))
  THEN <<DQ>> \o ReplaceAll(ReplaceAll(s, DQ, <<BS, DQ>>), BS, <<BS, BS>>) \o <<DQ>>
  ELSE s

\* quoteString without the digits-only test
quoteString_NoDigitTest(s) ==
  IF \/ s = <<>>
     \/ Includes(s, ":")
     \/ Includes(s, "#")
     \/ Includes(s, NL)
     \/ Includes(s, DQ)
     \/ Includes(s, "'")
     \/ StartsWith(s, "{")
     \/ StartsWith(s, "[")
     \/ StartsWith(s, "*")
     \/ StartsWith(s, "&")
     \/ s = <<"t", "r", "u", "e">>
     \/ s = <<"f", "a", "l", "s", "e">>
     \/ s = <<"n", "u", "l", "l">>
     \/ s = <<"y", "e", "s">>
     \/ s = <<"n", "o">>
  THEN <<DQ>> \o ReplaceAll(ReplaceAll(s, BS, <<BS, BS>>), DQ, <<BS, DQ>>) \o <<DQ>>
  ELSE s

quoteString(s) ==
  IF \/ s = <<>>
     \/ Includes(s, ":")
     \/ Includes(s, "#")
     \/ Includes(s, NL)
     \/ Includes(s, DQ)
     \/ Includes(s, "'")
     \/ StartsWith(s, "{")
     \/ StartsWith(s, "[")
     \/ StartsWith(s, "*")
     \/ StartsWith(s, "&")
     \/ s = <<"t", "r", "u", "e">>
     \/ s = <<"f", "a", "l", "s", "e">>
     \/ s = <<"n", "u", "l", "l">>
     \/ s = <<"y", "e", "s">>
     \/ s = <<"n", "o">>
     \/ (Len(s) > 0 /\ \A i \in 1..Len(s) : IsDigit(s[i]))
  THEN <<DQ>> \o ReplaceAll(ReplaceAll(s, BS, <<BS, BS>>), DQ, <<BS, DQ>>) \o <<DQ>>
  ELSE s

\* A canonical array index: the keys an object lists first, in ascending
\* numeric order (OrdinaryOwnPropertyKeys).  Keys of the model have at most 9
\* digits, all below 2^32 - 1.
IsArrayIndex(key) ==
  /\ Len(key) > 0
  /\ Len(key) <= 9
  /\ \A i \in 1..Len(key) : IsDigit(key[i])
  /\ (key[1] = "0" => Len(key) = 1)

RECURSIVE ParseNat(_)
ParseNat(s) ==
  IF Len(s) = 0 THEN 0
  ELSE 10 * ParseNat(SubSeq(s, 1, Len(s) - 1)) + DigitValue(s[Len(s)])

RECURSIVE SortByIndex(_)
\* properties with array-index keys, in ascending numeric order
SortByIndex(props) ==
  IF Len(props) = 0 THEN <<>>
  ELSE LET m == CHOOSE i \in 1..Len(props) :
                  \A j \in 1..Len(props) : ParseNat(props[i][1]) <= ParseNat(props[j][1])
       IN <<props[m]>> \o
          SortByIndex(SubSeq(props, 1, m - 1) \o SubSeq(props, m + 1, Len(props)))

\* Object.entries(obj): array-index keys ascending, then the other keys in
\* insertion order
ObjectEntries(obj) ==
  SortByIndex(SelectSeq(obj.props, LAMBDA p : IsArrayIndex(p[1])))
    \o SelectSeq(obj.props, LAMBDA p : ~IsArrayIndex(p[1]))

\* Object.keys(value).length
ObjectKeysLength(value) == Len(value.props)

RECURSIVE toYAML(_, _)
RECURSIVE serializeArray(_, _)
RECURSIVE serializeObject(_, _)

\* the body of serializeArray's loop: the text pushed for one item
ArrayItemText(item, indent) ==
  IF item.t = "object"
  THEN LET inner == toYAML(item, indent + 2)
           firstLineEnd == IndexOf(inner, NL)
       IN IF firstLineEnd = -1
          THEN pad(indent) \o <<"-", " ">> \o inner
          ELSE LET first == Slice(inner, 0, firstLineEnd)
                   rest == Slice(inner, firstLineEnd + 1, Len(inner))
                   restLines == Split(rest, NL)
                   indentedRest ==
                     Join([i \in 1..Len(restLines) |-> pad(2) \o restLines[i]], <<NL>>)
               IN pad(indent) \o <<"-", " ">> \o first \o <<NL>> \o indentedRest
  ELSE pad(indent) \o <<"-", " ">> \o toYAML(item, indent + 2)

serializeArray(arr, indent) ==
  IF Len(arr) = 0 THEN <<"[", "]">>
  ELSE Join([i \in 1..Len(arr) |-> ArrayItemText(arr[i], indent)], <<NL>>)

\* the loop body expanding every object value, the empty one too
ObjectEntryText_ExpandEmpty(key, value, indent) ==
  IF value.t \in {"array", "object"}
  THEN pad(indent) \o key \o <<":">> \o <<NL>> \o toYAML(value, indent + 2)
  ELSE pad(indent) \o key \o <<":", " ">> \o toYAML(value, 0)

\* the loop body indenting a nested value by 4
ObjectEntryText_Indent4(key, value, indent) ==
  IF /\ value.t \in {"array", "object"}
     /\ (value.t = "array" \/ ObjectKeysLength(value) > 0)
  THEN pad(indent) \o key \o <<":">> \o <<NL>> \o toYAML(value, indent + 4)
  ELSE pad(indent) \o key \o <<":", " ">> \o toYAML(value, 0)

\* the body of serializeObject's loop: the text pushed for one entry (two
\* pushed lines are joined by the line break lines.join puts between them)
ObjectEntryText(key, value, indent) ==
  IF /\ value.t \in {"array", "object"}
     /\ (value.t = "array" \/ ObjectKeysLength(value) > 0)
  THEN pad(indent) \o key \o <<":">> \o <<NL>> \o toYAML(value, indent + 2)
  ELSE pad(indent) \o key \o <<":", " ">> \o toYAML(value, 0)

\* serializeObject without the filter on undefined values
serializeObject_NoFilter(obj, indent) ==
  LET entries == ObjectEntries(obj)
  IN IF Len(entries) = 0 THEN <<"{", "}">>
     ELSE Join([i \in 1..Len(entries) |->
                  ObjectEntryText(entries[i][1], entries[i][2], indent)], <<NL>>)

serializeObject(obj, indent) ==
  LET entries == SelectSeq(ObjectEntries(obj), LAMBDA p : p[2].t # "undefined")
  IN IF Len(entries) = 0 THEN <<"{", "}">>
     ELSE Join([i \in 1..Len(entries) |->
                  ObjectEntryText(entries[i][1], entries[i][2], indent)], <<NL>>)

toYAML(obj, indent) ==
  CASE obj.t \in {"null", "undefined"} -> <<"n", "u", "l", "l">>
    [] obj.t = "boolean" ->
         IF obj.b THEN <<"t", "r", "u", "e">> ELSE <<"f", "a", "l", "s", "e">>
    [] obj.t = "number" -> NumberToString(obj.n)
    [] obj.t = "string" -> quoteString(obj.s)
    [] obj.t = "array" -> serializeArray(obj.items, indent)
    [] obj.t = "object" -> serializeObject(obj, indent)

toMultiDocYAML(resources) ==
  Join([i \in 1..Len(resources) |->
          <<"-", "-", "-", NL>> \o toYAML(resources[i], 0)], <<NL>>)

\* ------------------------------------------------------------------ inputs

KeyA == <<"a">>
KeyB == <<"b">>
Key1 == <<"1">>

\* property names of the generated objects
Keys == {KeyA, KeyB, Key1}

\* scalar leaves of the generated values
Leaves == {Null, Str(<<"x">>)}

RECURSIVE ValuesOfSize(_)
RECURSIVE ItemsOfSize(_)
RECURSIVE PropsOfSize(_, _)

\* sequences of values with n nodes in all
ItemsOfSize(n) ==
  IF n = 0 THEN {<<>>}
  ELSE UNION {{<<x>> \o rest : x \in ValuesOfSize(m), rest \in ItemsOfSize(n - m)} :
                m \in 1..n}

\* sequences of properties with n nodes in all, keyed by distinct keys of ks;
\* a property may be absent (undefined)
PropsOfSize(n, ks) ==
  IF n = 0 THEN {<<>>}
  ELSE UNION {{<<<<k, x>>>> \o rest :
                 x \in ValuesOfSize(m) \cup (IF m = 1 THEN {Undefined} ELSE {}),
                 rest \in PropsOfSize(n - m, ks \ {k})} :
                <<m, k>> \in (1..n) \X ks}

\* the values with exactly n nodes
ValuesOfSize(n) ==
  IF n = 1 THEN Leaves \cup {Arr(<<>>), Obj(<<>>)}
  ELSE {Arr(items) : items \in ItemsOfSize(n - 1)}
         \cup {Obj(props) : props \in PropsOfSize(n - 1, Keys)}

GeneratedInputs == UNION {ValuesOfSize(n) : n \in 1..MaxNodes}

\* {apiVersion: "v1", kind: "Service",
\*  spec: {ports: [{port: 80}], selector: {app: "x"}}}
ServiceManifest ==
  Obj(<< <<<<"a", "p", "i", "V", "e", "r", "s", "i", "o", "n">>, Str(<<"v", "1">>)>>,
         <<<<"k", "i", "n", "d">>, Str(<<"S", "e", "r", "v", "i", "c", "e">>)>>,
         <<<<"s", "p", "e", "c">>,
           Obj(<< <<<<"p", "o", "r", "t", "s">>, Arr(<<Obj(<< <<<<"p", "o", "r", "t">>, Num(80)>> >>)>>)>>,
                  <<<<"s", "e", "l", "e", "c", "t", "o", "r">>, Obj(<< <<<<"a", "p", "p">>, Str(<<"x">>)>> >>)>> >>)>> >>)

\* {containers: [{name: "app", image: "nginx"}]}
ContainersExample ==
  Obj(<< <<<<"c", "o", "n", "t", "a", "i", "n", "e", "r", "s">>,
           Arr(<<Obj(<< <<<<"n", "a", "m", "e">>, Str(<<"a", "p", "p">>)>>,
                        <<<<"i", "m", "a", "g", "e">>, Str(<<"n", "g", "i", "n", "x">>)>> >>)>>)>> >>)

\* {spec: {replicas: 2}}
ReplicasExample ==
  Obj(<< <<<<"s", "p", "e", "c">>, Obj(<< <<<<"r", "e", "p", "l", "i", "c", "a", "s">>, Num(2)>> >>)>> >>)

\* {a: {b: {a: null, b: "x"}, 1: "x"}}
DeepExample ==
  Obj(<< <<KeyA, Obj(<< <<KeyB, Obj(<< <<KeyA, Null>>, <<KeyB, Str(<<"x">>)>> >>)>>,
                        <<Key1, Str(<<"x">>)>> >>)>> >>)

\* ["---"], [{kind: "Deployment"}, {kind: "Service"}, {kind: "ConfigMap"}]
DashesDocs == Arr(<<Str(<<"-", "-", "-">>)>>)

ThreeDocs ==
  Arr(<<Obj(<< <<<<"k", "i", "n", "d">>, Str(<<"D", "e", "p", "l", "o", "y", "m", "e", "n", "t">>)>> >>),
        Obj(<< <<<<"k", "i", "n", "d">>, Str(<<"S", "e", "r", "v", "i", "c", "e">>)>> >>),
        Obj(<< <<<<"k", "i", "n", "d">>, Str(<<"C", "o", "n", "f", "i", "g", "M", "a", "p">>)>> >>)>>)

NamedInputs ==
  {ServiceManifest, ContainersExample, ReplicasExample, DeepExample, DashesDocs, ThreeDocs}

Inputs == GeneratedInputs \cup NamedInputs

\* characters of the generated strings
Alphabet == {"a", ":", "#", NL, DQ, "'", "{", "[", "*", "&", "1", BS, "-", " "}

RECURSIVE StringsOfLen(_)
StringsOfLen(n) ==
  IF n = 0 THEN {<<>>}
  ELSE {<<c>> \o s : c \in Alphabet, s \in StringsOfLen(n - 1)}

\* the words quoteString tests for, and strings close to them
WordInputs ==
  {<<"t", "r", "u", "e">>, <<"f", "a", "l", "s", "e">>, <<"n", "u", "l", "l">>, <<"y", "e", "s">>, <<"n", "o">>,
   <<"T", "r", "u", "e">>, <<"F", "A", "L", "S", "E">>, <<"n", "u", "l">>, <<"y", "e", "s", "s">>, <<"o", "n">>, <<"~">>,
   <<"1", "2", "3">>, <<"1", "2", "a">>, <<"1", ".", "5">>, <<"-", "1">>, <<"x">>, <<"n", "g", "i", "n", "x">>,
   <<"/", "a", "p", "i", ":", "v", "1">>, <<"h", "t", "t", "p", ":", "/", "/", "x", ":", "8", "0">>, <<"a", "{", "b">>, <<"a", "*">>}

ScalarInputs ==
  {Str(s) : s \in UNION {StringsOfLen(n) : n \in 0..MaxStrLen}}
    \cup {Str(s) : s \in WordInputs}
    \cup {Null, Undefined, Bool(TRUE), Bool(FALSE), Num(0), Num(80), Num(123), Num(-1)}

\* ------------------------------------------------------------ specification

Init ==
  /\ input \in Inputs
  /\ output = <<>>
  /\ op = "none"

CallToYAML ==
  /\ op = "none"
  /\ output' = toYAML(input, 0)
  /\ op' = "toYAML"
  /\ UNCHANGED input

CallToMultiDocYAML ==
  /\ op = "none"
  /\ input.t = "array"
  /\ output' = toMultiDocYAML(input.items)
  /\ op' = "toMultiDocYAML"
  /\ UNCHANGED input

Next == CallToYAML \/ CallToMultiDocYAML

Spec == Init /\ [][Next]_vars

\* toYAML applied to scalars
InitScalar ==
  /\ input \in ScalarInputs
  /\ output = <<>>
  /\ op = "none"

NextScalar == CallToYAML

SpecScalar == InitScalar /\ [][NextScalar]_vars

\* ------------------------------------------------------- reading the output

Lines(text) == Split(text, NL)

HasLine(text, line) == \E i \in 1..Len(Lines(text)) : Lines(text)[i] = line

IsPrefix(p, s) == Len(p) <= Len(s) /\ SubSeq(s, 1, Len(p)) = p

\* number of spaces before the first other character of a line
LeadingSpaces(line) ==
  IF \A i \in 1..Len(line) : line[i] = " " THEN Len(line)
  ELSE (CHOOSE i \in 1..Len(line) :
          line[i] # " " /\ \A j \in 1..(i - 1) : line[j] = " ") - 1

IsScalar(x) == x.t \in {"null", "boolean", "number", "string"}

IsEmptyArr(x) == x.t = "array" /\ Len(x.items) = 0

IsEmptyObj(x) == x.t = "object" /\ Len(x.props) = 0

\* ---------------------------------------------------------------- C1

\* C1: the rendering of ServiceManifest has the lines `apiVersion: v1`,
\* `kind: Service`, `spec:`, `  ports:`, a line `- port: 80` (the dash, one
\* space, the key and its value, indented by at least two spaces), and
\* `  selector:` directly followed by `    app: x`.
C1_ServiceManifestLines ==
  (op = "toYAML" /\ input = ServiceManifest) =>
    LET ls == Lines(output)
    IN /\ HasLine(output, <<"a", "p", "i", "V", "e", "r", "s", "i", "o", "n", ":", " ", "v", "1">>)
       /\ HasLine(output, <<"k", "i", "n", "d", ":", " ", "S", "e", "r", "v", "i", "c", "e">>)
       /\ HasLine(output, <<"s", "p", "e", "c", ":">>)
       /\ HasLine(output, <<" ", " ", "p", "o", "r", "t", "s", ":">>)
       /\ \E i \in 1..Len(ls) :
            /\ LeadingSpaces(ls[i]) >= 2
            /\ ls[i] = pad(LeadingSpaces(ls[i])) \o <<"-", " ", "p", "o", "r", "t", ":", " ", "8", "0">>
       /\ \E i \in 1..(Len(ls) - 1) :
            ls[i] = <<" ", " ", "s", "e", "l", "e", "c", "t", "o", "r", ":">> /\ ls[i + 1] = <<" ", " ", " ", " ", "a", "p", "p", ":", " ", "x">>

\* ---------------------------------------------------------------- C2

\* a non-empty container all of whose children are present scalars: it
\* renders to one line per child
IsFlat(x) ==
  \/ x.t = "array" /\ Len(x.items) > 0 /\ \A i \in 1..Len(x.items) : IsScalar(x.items[i])
  \/ x.t = "object" /\ Len(x.props) > 0 /\ \A i \in 1..Len(x.props) : IsScalar(x.props[i][2])

IsOneLine(x) == IsScalar(x) \/ IsEmptyArr(x) \/ IsEmptyObj(x)

ElementLineCount(x) ==
  IF IsFlat(x) THEN (IF x.t = "array" THEN Len(x.items) ELSE Len(x.props)) ELSE 1

RECURSIVE LinesBefore(_, _)
\* number of lines the first n elements render to
LinesBefore(items, n) ==
  IF n = 0 THEN 0 ELSE LinesBefore(items, n - 1) + ElementLineCount(items[n])

\* the sequence looked at: the input itself (nesting depth 0) or the only
\* property of the input (depth 1), and the lines it renders to
C2_Sequence ==
  IF input.t = "array" THEN input.items
  ELSE IF input.t = "object" /\ Len(input.props) = 1 /\ input.props[1][2].t = "array"
       THEN input.props[1][2].items
       ELSE <<>>

C2_SequenceLines ==
  IF input.t = "array" THEN Lines(output) ELSE Tail(Lines(output))

\* C2: in a non-empty sequence (at depth 0 or 1) whose elements are scalars,
\* empty containers or flat containers, each flat container element starts
\* on its dash line, and every later line of the element starts in the
\* column where the element's first key (or first nested dash) starts.
C2_ElementsAligned ==
  (/\ op = "toYAML"
   /\ Len(C2_Sequence) > 0
   /\ \A i \in 1..Len(C2_Sequence) : IsOneLine(C2_Sequence[i]) \/ IsFlat(C2_Sequence[i])
   /\ Len(C2_SequenceLines) = LinesBefore(C2_Sequence, Len(C2_Sequence)))
  => \A i \in 1..Len(C2_Sequence) :
       IsFlat(C2_Sequence[i]) =>
         LET start == LinesBefore(C2_Sequence, i - 1) + 1
             first == C2_SequenceLines[start]
             dash == LeadingSpaces(first)
             column == dash + 1 + LeadingSpaces(SubSeq(first, dash + 2, Len(first)))
         IN /\ dash < Len(first)
            /\ first[dash + 1] = "-"
            /\ column < Len(first)
            /\ \A j \in 1..(ElementLineCount(C2_Sequence[i]) - 1) :
                 LeadingSpaces(C2_SequenceLines[start + j]) = column

\* ---------------------------------------------------------------- C3

\* the object without its absent properties
WithoutAbsent(obj) == Obj(SelectSeq(obj.props, LAMBDA p : p[2].t # "undefined"))

\* C3: an absent property of the input mapping gives no line `key:` at the
\* mapping's indent, a null property gives the line `key: null`, and the
\* output is that of the mapping without its absent properties; {a: absent,
\* b: null} renders to `b: null`.
C3_AbsentOmittedNullRendered ==
  (op = "toYAML" /\ input.t = "object") =>
    /\ \A i \in 1..Len(input.props) :
         input.props[i][2].t = "undefined" =>
           \A n \in 1..Len(Lines(output)) :
             ~IsPrefix(input.props[i][1] \o <<":">>, Lines(output)[n])
    /\ \A i \in 1..Len(input.props) :
         input.props[i][2].t = "null" => HasLine(output, input.props[i][1] \o <<":", " ", "n", "u", "l", "l">>)
    /\ output = toYAML(WithoutAbsent(input), 0)
    /\ (input = Obj(<< <<KeyA, Undefined>>, <<KeyB, Null>> >>) => output = <<"b", ":", " ", "n", "u", "l", "l">>)

\* {a: absent, b: null, 1: "x"} has been serialized
C3_Witness ==
  /\ op = "toYAML"
  /\ input = Obj(<< <<KeyA, Undefined>>, <<KeyB, Null>>, <<Key1, Str(<<"x">>)>> >>)
  /\ output = <<"1", ":", " ", "x", NL, "b", ":", " ", "n", "u", "l", "l">>

\* ---------------------------------------------------------------- C4

\* the condition of the claim
C4_Condition(s) ==
  \/ Len(s) = 0
  \/ \E i \in 1..Len(s) : s[i] \in {":", "#", NL, DQ, "'"}
  \/ Len(s) > 0 /\ s[1] \in {"{", "[", "*", "&"}
  \/ s \in {<<"t", "r", "u", "e">>, <<"f", "a", "l", "s", "e">>, <<"n", "u", "l", "l">>, <<"y", "e", "s">>, <<"n", "o">>}
  \/ Len(s) > 0 /\ \A i \in 1..Len(s) : s[i] \in {DigitChars[d] : d \in 1..10}

RECURSIVE Escaped(_)
\* s with each backslash doubled and each double quote preceded by a backslash
Escaped(s) ==
  IF Len(s) = 0 THEN <<>>
  ELSE (IF s[1] = BS THEN <<BS, BS>> ELSE IF s[1] = DQ THEN <<BS, DQ>> ELSE <<s[1]>>)
         \o Escaped(Tail(s))

\* C4 as stated: toYAML(s) is s itself between two double quotes exactly when
\* the condition holds, and s otherwise.
C4_Original ==
  (op = "toYAML" /\ input.t = "string") =>
    output = IF C4_Condition(input.s) THEN <<DQ>> \o input.s \o <<DQ>> ELSE input.s

\* C4 amended: toYAML(s) is s, with each backslash and each double quote
\* escaped by a backslash, between two double quotes exactly when the
\* condition holds, and s unchanged otherwise.
C4_Amended ==
  (op = "toYAML" /\ input.t = "string") =>
    output = IF C4_Condition(input.s) THEN <<DQ>> \o Escaped(input.s) \o <<DQ>>
             ELSE input.s

\* the string of a backslash and a double quote has been quoted
C4_Witness ==
  /\ op = "toYAML"
  /\ input = Str(<<BS, DQ>>)
  /\ output = <<DQ, BS, BS, BS, DQ, DQ>>

\* ---------------------------------------------------------------- C5

\* C5: a property of the input mapping whose value is the empty sequence is
\* rendered as the single line `key: []` at the mapping's indent.
C5_EmptySequenceInline ==
  (op = "toYAML" /\ input.t = "object") =>
    \A i \in 1..Len(input.props) :
      IsEmptyArr(input.props[i][2]) => HasLine(output, input.props[i][1] \o <<":", " ", "[", "]">>)

\* ---------------------------------------------------------------- C6

\* C6: toYAML([]) is `[]`, toYAML({}) is `{}`, a property whose value is the
\* empty mapping is rendered as the line `key: {}`, and a mapping with that
\* one property renders to exactly `key: {}`.
C6_EmptyContainers ==
  op = "toYAML" =>
    /\ (IsEmptyArr(input) => output = <<"[", "]">>)
    /\ (IsEmptyObj(input) => output = <<"{", "}">>)
    /\ (input.t = "object" =>
          \A i \in 1..Len(input.props) :
            IsEmptyObj(input.props[i][2]) =>
              /\ HasLine(output, input.props[i][1] \o <<":", " ", "{", "}">>)
              /\ (Len(input.props) = 1 => output = input.props[i][1] \o <<":", " ", "{", "}">>))

\* {a: {}} has been serialized to `a: {}`
C6_Witness ==
  /\ op = "toYAML"
  /\ input = Obj(<< <<KeyA, Obj(<<>>)>> >>)
  /\ output = <<"a", ":", " ", "{", "}">>

\* ---------------------------------------------------------------- C7

IsAllAbsent(x) ==
  x.t = "object" /\ Len(x.props) > 0 /\ \A i \in 1..Len(x.props) : x.props[i][2].t = "undefined"

RECURSIVE EmptiedAbsent(_)
\* the value with every mapping all of whose properties are absent replaced
\* by the empty mapping
EmptiedAbsent(x) ==
  IF IsAllAbsent(x) THEN Obj(<<>>)
  ELSE IF x.t = "array" THEN Arr([i \in 1..Len(x.items) |-> EmptiedAbsent(x.items[i])])
  ELSE IF x.t = "object"
       THEN Obj([i \in 1..Len(x.props) |-> <<x.props[i][1], EmptiedAbsent(x.props[i][2])>>])
       ELSE x

\* C7: a mapping all of whose properties are absent renders like the empty
\* mapping wherever it stands: the output is that of the input with every
\* such mapping replaced by {}.
C7_AllAbsentLikeEmpty ==
  op = "toYAML" => output = toYAML(EmptiedAbsent(input), 0)

\* ---------------------------------------------------------------- C8

\* C8: the lines of a mapping of present scalars carry its keys in the order
\* in which the keys were inserted.
C8_InsertionOrder ==
  (/\ op = "toYAML"
   /\ input.t = "object"
   /\ \A i \in 1..Len(input.props) : IsScalar(input.props[i][2]))
  => \A i \in 1..Len(input.props) :
       /\ i <= Len(Lines(output))
       /\ IsPrefix(input.props[i][1] \o <<":">>, Lines(output)[i])

\* ---------------------------------------------------------------- C9

RECURSIVE IsMapTree(_)
\* a mapping whose values are scalars, empty sequences, absent, or mappings
\* of the same kind: every key in it is nested only inside mappings
IsMapTree(x) ==
  /\ x.t = "object"
  /\ \A i \in 1..Len(x.props) :
       LET y == x.props[i][2]
       IN y.t = "undefined" \/ IsScalar(y) \/ IsEmptyArr(y) \/ IsMapTree(y)

RECURSIVE TreeKeys(_, _)
\* <<2 * depth, key>> for every present key of a map tree, x being at depth d
TreeKeys(x, d) ==
  LET OfProp(p) ==
        IF p[2].t = "undefined" THEN <<>>
        ELSE <<<<2 * d, p[1]>>>> \o (IF p[2].t = "object" THEN TreeKeys(p[2], d + 1) ELSE <<>>)
      RECURSIVE OfProps(_)
      OfProps(ps) == IF Len(ps) = 0 THEN <<>> ELSE OfProp(ps[1]) \o OfProps(Tail(ps))
  IN OfProps(x.props)

\* <<leading spaces, key>> for every line of the text that has a colon
OutputKeys(text) ==
  LET keyed == SelectSeq(Lines(text), LAMBDA l : Includes(l, ":"))
  IN [i \in 1..Len(keyed) |->
        <<LeadingSpaces(keyed[i]),
          SubSeq(keyed[i], LeadingSpaces(keyed[i]) + 1, IndexOf(keyed[i], ":"))>>]

Count(seq, e) == Cardinality({i \in 1..Len(seq) : seq[i] = e})

SameBag(a, b) == Len(a) = Len(b) /\ \A i \in 1..Len(a) : Count(a, a[i]) = Count(b, a[i])

\* C9: in the rendering of a map tree, the key lines are exactly the present
\* keys, each with 2 * depth leading spaces; {spec: {replicas: 2}} renders to
\* `spec:` and `  replicas: 2`.
C9_KeyIndentIsTwiceDepth ==
  (op = "toYAML" /\ IsMapTree(input)) =>
    /\ SameBag(OutputKeys(output), TreeKeys(input, 0))
    /\ (input = ReplicasExample => output = <<"s", "p", "e", "c", ":", NL, " ", " ", "r", "e", "p", "l", "i", "c", "a", "s", ":", " ", "2">>)

\* the three-level mapping has been serialized, its innermost key b with
\* four leading spaces
C9_Witness ==
  /\ op = "toYAML"
  /\ input = DeepExample
  /\ IsMapTree(input)
  /\ HasLine(output, <<" ", " ", " ", " ", "b", ":", " ", "x">>)
  /\ HasLine(output, <<" ", " ", "b", ":">>)

\* ---------------------------------------------------------------- C10

RECURSIVE Occurrences(_, _)
\* number of occurrences of sub in text, scanning left to right without
\* overlap (text.split(sub).length - 1)
Occurrences(text, sub) ==
  IF Len(text) < Len(sub) THEN 0
  ELSE IF SubSeq(text, 1, Len(sub)) = sub
       THEN 1 + Occurrences(SubSeq(text, Len(sub) + 1, Len(text)), sub)
       ELSE Occurrences(Tail(text), sub)

RECURSIVE Documents(_, _)
\* text cut into n documents, each `---`, a line break, and the toYAML
\* rendering of the value of its rank, with one line break between documents
Documents(text, values) ==
  IF Len(values) = 0 THEN text = <<>>
  ELSE LET doc == <<"-", "-", "-", NL>> \o toYAML(values[1], 0)
       IN /\ IsPrefix(doc, text)
          /\ IF Len(values) = 1 THEN text = doc
             ELSE /\ Len(text) > Len(doc)
                  /\ text[Len(doc) + 1] = NL
                  /\ Documents(SubSeq(text, Len(doc) + 2, Len(text)), Tail(values))

\* C10: the output of toMultiDocYAML for N values has exactly N occurrences
\* of `---`, and is the N documents in input order joined by a line break.
C10_SeparatorPerDocument ==
  op = "toMultiDocYAML" =>
    /\ Occurrences(output, <<"-", "-", "-">>) = Len(input.items)
    /\ Documents(output, input.items)

\* ======================================================= helm/template.ts

\* \s (the white space the model's templates use) and \w
IsSpace(c) == c \in {" ", "\t", NL}

IsWordChar(c) ==
  c \in
  {"a", "b", "c", "d", "e", "f", "g", "h", "i", "j", "k", "l", "m",
   "n", "o", "p", "q", "r", "s", "t", "u", "v", "w", "x", "y", "z",
   "A", "B", "C", "D", "E", "F", "G", "H", "I", "J", "K", "L", "M",
   "N", "O", "P", "Q", "R", "S", "T", "U", "V", "W", "X", "Y", "Z",
   "0", "1", "2", "3", "4", "5", "6", "7", "8", "9", "_"}

\* whether the literal lit stands in s at position i (1-based)
HasAt(s, i, lit) ==
  i >= 1 /\ i + Len(lit) - 1 <= Len(s) /\ SubSeq(s, i, i + Len(lit) - 1) = lit

RECURSIVE SkipSpaces(_, _)
\* \s* from position i, greedy: the position after it
SkipSpaces(s, i) ==
  IF i <= Len(s) /\ IsSpace(s[i]) THEN SkipSpaces(s, i + 1) ELSE i

RECURSIVE SkipWord(_, _)
\* \w* from position i, greedy: the position after it
SkipWord(s, i) ==
  IF i <= Len(s) /\ IsWordChar(s[i]) THEN SkipWord(s, i + 1) ELSE i

RECURSIVE SkipSegments(_, _)
\* (?:\.\w+)* from position i, greedy: the position after it
SkipSegments(s, i) ==
  IF i <= Len(s) /\ s[i] = "." /\ SkipWord(s, i + 1) > i + 1
  THEN SkipSegments(s, SkipWord(s, i + 1))
  ELSE i

\* the pattern without its end: /\{\{\s*<name>\w*\s*\}\}/
MatchFixed_WordTail(s, i, name) ==
  IF ~HasAt(s, i, <<"{", "{">>) THEN 0
  ELSE LET a == SkipSpaces(s, i + 2)
       IN IF ~HasAt(s, a, name) THEN 0
          ELSE LET b == SkipSpaces(s, SkipWord(s, a + Len(name)))
               IN IF HasAt(s, b, <<"}", "}">>) THEN b + 2 ELSE 0

\* /\{\{\s*<name>\s*\}\}/ at position i: the position after the match, 0 when
\* there is no match at i
MatchFixed(s, i, name) ==
  IF ~HasAt(s, i, <<"{", "{">>) THEN 0
  ELSE LET a == SkipSpaces(s, i + 2)
       IN IF ~HasAt(s, a, name) THEN 0
          ELSE LET b == SkipSpaces(s, a + Len(name))
               IN IF HasAt(s, b, <<"}", "}">>) THEN b + 2 ELSE 0

DotValues == <<".", "V", "a", "l", "u", "e", "s", ".">>

\* /\{\{\s*\.Values\.(\w+(?:\.\w+)*)\s*\}\}/ at position i: the position after
\* the match (0 when there is none) and the captured path
MatchValues(s, i) ==
  IF ~HasAt(s, i, <<"{", "{">>) THEN [end |-> 0, path |-> <<>>]
  ELSE LET a == SkipSpaces(s, i + 2)
       IN IF ~HasAt(s, a, DotValues) THEN [end |-> 0, path |-> <<>>]
          ELSE LET p == a + Len(DotValues)
                   w == SkipWord(s, p)
               IN IF w = p THEN [end |-> 0, path |-> <<>>]
                  ELSE LET q == SkipSegments(s, w)
                           b == SkipSpaces(s, q)
                       IN IF HasAt(s, b, <<"}", "}">>)
                          THEN [end |-> b + 2, path |-> SubSeq(s, p, q - 1)]
                          ELSE [end |-> 0, path |-> <<>>]

\* a function of the runtime (a method or constructor found on a prototype)
Func(name) == [t |-> "function", name |-> name]

\* current[part]: own property, else what the prototype chain gives.  Of the
\* inherited names the model knows constructor and toString, and for an array
\* length and the indices.
GetProperty(current, part) ==
  IF current.t = "object" /\ \E i \in 1..Len(current.props) : current.props[i][1] = part
  THEN current.props[CHOOSE i \in 1..Len(current.props) : current.props[i][1] = part][2]
  ELSE IF current.t = "array" /\ part = <<"l", "e", "n", "g", "t", "h">> THEN Num(Len(current.items))
  ELSE IF current.t = "array" /\ IsArrayIndex(part) /\ ParseNat(part) < Len(current.items)
       THEN current.items[ParseNat(part) + 1]
  ELSE IF part = <<"c", "o", "n", "s", "t", "r", "u", "c", "t", "o", "r">>
       THEN Func(IF current.t = "array" THEN <<"A", "r", "r", "a", "y">> ELSE <<"O", "b", "j", "e", "c", "t">>)
  ELSE IF part = <<"t", "o", "S", "t", "r", "i", "n", "g">> THEN Func(<<"t", "o", "S", "t", "r", "i", "n", "g">>)
  ELSE Undefined

RECURSIVE getNestedFrom(_, _)
\* the loop of getNestedValue over the parts left
getNestedFrom(current, parts) ==
  IF Len(parts) = 0 THEN current
  ELSE IF current.t \in {"null", "undefined"} \/ current.t \notin {"object", "array"}
       THEN Undefined
       ELSE getNestedFrom(GetProperty(current, parts[1]), Tail(parts))

getNestedValue(obj, path) == getNestedFrom(obj, Split(path, "."))

RECURSIVE StringOf(_)
\* String(value)
StringOf(value) ==
  CASE value.t = "undefined" -> <<"u", "n", "d", "e", "f", "i", "n", "e", "d">>
    [] value.t = "null" -> <<"n", "u", "l", "l">>
    [] value.t = "boolean" ->
         IF value.b THEN <<"t", "r", "u", "e">> ELSE <<"f", "a", "l", "s", "e">>
    [] value.t = "number" -> NumberToString(value.n)
    [] value.t = "string" -> value.s
    [] value.t = "function" -> <<"f", "u", "n", "c", "t", "i", "o", "n", " ">> \o value.name \o <<"(", ")", " ", "{", " ", "[", "n", "a", "t", "i", "v", "e", " ", "c", "o", "d", "e", "]", " ", "}">>
    [] value.t = "object" -> <<"[", "o", "b", "j", "e", "c", "t", " ", "O", "b", "j", "e", "c", "t", "]">>
    [] value.t = "array" ->
         Join([i \in 1..Len(value.items) |->
                 IF value.items[i].t \in {"null", "undefined"} THEN <<>>
                 ELSE StringOf(value.items[i])], <<",">>)

\* the replacer of the .Values pass
ValuesReplacer(values, path) ==
  LET value == getNestedValue(values, path)
  IN IF value.t # "undefined" THEN StringOf(value) ELSE <<>>

\* the grave accent character, which a string literal of the module cannot
\* hold: the one character of the model's texts written with a longer name
GRAVE == "grave"

RECURSIVE GetSubstitution(_, _, _, _)
\* expansion of a replacement string (no capture groups): $$ is a dollar, $&
\* the match, $ and a grave accent the text before the match, $ and an
\* apostrophe the text after it
GetSubstitution(replacement, str, from, to) ==
  IF Len(replacement) = 0 THEN <<>>
  ELSE IF replacement[1] = "$" /\ Len(replacement) >= 2
            /\ replacement[2] \in {"$", "&", GRAVE, "'"}
       THEN (CASE replacement[2] = "$" -> <<"$">>
               [] replacement[2] = "&" -> SubSeq(str, from, to - 1)
               [] replacement[2] = GRAVE -> SubSeq(str, 1, from - 1)
               [] replacement[2] = "'" -> SubSeq(str, to, Len(str)))
              \o GetSubstitution(SubSeq(replacement, 3, Len(replacement)), str, from, to)
       ELSE <<replacement[1]>> \o GetSubstitution(Tail(replacement), str, from, to)

\* the set's least element, 0 for the empty set
FirstOf(positions) ==
  IF positions = {} THEN 0
  ELSE CHOOSE j \in positions : \A k \in positions : j <= k

RECURSIVE ReplaceValues(_, _, _)
\* result.replace(/\{\{\s*\.Values\. ... \}\}/g, replacer) from position i: the
\* text up to the leftmost match, the replacer's text, and on after the match
ReplaceValues(str, i, values) ==
  LET j == FirstOf({k \in i..Len(str) : MatchValues(str, k).end > 0})
  IN IF j = 0 THEN SubSeq(str, i, Len(str))
     ELSE LET m == MatchValues(str, j)
          IN SubSeq(str, i, j - 1) \o ValuesReplacer(values, m.path)
               \o ReplaceValues(str, m.end, values)

RECURSIVE ReplaceFixed(_, _, _, _)
\* result.replace(/\{\{\s*<name>\s*\}\}/g, replacement) from position i
ReplaceFixed(str, i, name, replacement) ==
  LET j == FirstOf({k \in i..Len(str) : MatchFixed(str, k, name) > 0})
  IN IF j = 0 THEN SubSeq(str, i, Len(str))
     ELSE LET e == MatchFixed(str, j, name)
          IN SubSeq(str, i, j - 1) \o GetSubstitution(replacement, str, j, e)
               \o ReplaceFixed(str, e, name, replacement)

\* context.field ?? fallback
OrDefault(field, fallback) ==
  IF field.t \in {"null", "undefined"} THEN fallback ELSE field.s

\* the field reference of each of the four fixed placeholders
FixedPattern(kind) ==
  CASE kind = "releaseName" -> <<".", "R", "e", "l", "e", "a", "s", "e", ".", "N", "a", "m", "e">>
    [] kind = "chartName" -> <<".", "C", "h", "a", "r", "t", ".", "N", "a", "m", "e">>
    [] kind = "namespace" -> <<".", "R", "e", "l", "e", "a", "s", "e", ".", "N", "a", "m", "e", "s", "p", "a", "c", "e">>
    [] kind = "chartVersion" -> <<".", "C", "h", "a", "r", "t", ".", "V", "e", "r", "s", "i", "o", "n">>

renderTemplate(template, context) ==
  LET r1 == ReplaceValues(template, 1, context.values)
      r2 == ReplaceFixed(r1, 1, FixedPattern("releaseName"), OrDefault(context.releaseName, <<"r", "e", "l", "e", "a", "s", "e">>))
      r3 == ReplaceFixed(r2, 1, FixedPattern("chartName"), OrDefault(context.chartName, <<"c", "h", "a", "r", "t">>))
      r4 == ReplaceFixed(r3, 1, FixedPattern("namespace"), OrDefault(context.namespace, <<"d", "e", "f", "a", "u", "l", "t">>))
      r5 == ReplaceFixed(r4, 1, FixedPattern("chartVersion"), OrDefault(context.chartVersion, <<"0", ".", "1", ".", "0">>))
  IN r5

\* ------------------------------------------------- templates and contexts

\* Largest number of pieces (placeholders and stretches of text) of a
\* generated template.
MaxPieces == 2

\* A template is written as its pieces in order: kind says what the piece is
\* (text outside placeholders, a .Values placeholder with its dotted path, one
\* of the four fixed placeholders, or a {{ ... }} sequence no pattern matches)
Piece(kind, text, path) == [kind |-> kind, text |-> text, path |-> path]

FixedKinds == {"releaseName", "chartName", "namespace", "chartVersion"}

Pieces ==
  { Piece("text", <<"x", ":", " ">>, <<>>),
    Piece("text", <<"{", " ", ".", "C", "h", "a", "r", "t", ".", "N", "a", "m", "e", " ", "}", "}">>, <<>>),
    Piece("values", <<"{", "{", " ", ".", "V", "a", "l", "u", "e", "s", ".", "a", " ", "}", "}">>, <<"a">>),
    Piece("values", <<"{", "{", ".", "V", "a", "l", "u", "e", "s", ".", "a", ".", "b", "}", "}">>, <<"a", ".", "b">>),
    Piece("values", <<"{", "{", " ", ".", "V", "a", "l", "u", "e", "s", ".", "b", " ", "}", "}">>, <<"b">>),
    Piece("values", <<"{", "{", " ", ".", "V", "a", "l", "u", "e", "s", ".", "a", ".", "l", "e", "n", "g", "t", "h", " ", "}", "}">>, <<"a", ".", "l", "e", "n", "g", "t", "h">>),
    Piece("values", <<"{", "{", " ", ".", "V", "a", "l", "u", "e", "s", ".", "c", "o", "n", "s", "t", "r", "u", "c", "t", "o", "r", " ", "}", "}">>, <<"c", "o", "n", "s", "t", "r", "u", "c", "t", "o", "r">>),
    Piece("releaseName", <<"{", "{", " ", ".", "R", "e", "l", "e", "a", "s", "e", ".", "N", "a", "m", "e", " ", "}", "}">>, <<>>),
    Piece("chartName", <<"{", "{", " ", ".", "C", "h", "a", "r", "t", ".", "N", "a", "m", "e", " ", "}", "}">>, <<>>),
    Piece("namespace", <<"{", "{", " ", ".", "R", "e", "l", "e", "a", "s", "e", ".", "N", "a", "m", "e", "s", "p", "a", "c", "e", " ", "}", "}">>, <<>>),
    Piece("chartVersion", <<"{", "{", ".", "C", "h", "a", "r", "t", ".", "V", "e", "r", "s", "i", "o", "n", "}", "}">>, <<>>),
    Piece("other", <<"{", "{", " ", ".", "V", "a", "l", "u", "e", "s", ".", "a", "-", "b", " ", "}", "}">>, <<>>),
    Piece("other", <<"{", "{", " ", ".", "V", "a", "l", "u", "e", "s", ".", "a", " ", "|", " ", "q", "u", "o", "t", "e", " ", "}", "}">>, <<>>),
    Piece("other", <<"{", "{", " ", ".", "R", "e", "l", "e", "a", "s", "e", ".", "S", "e", "r", "v", "i", "c", "e", " ", "}", "}">>, <<>>) }

RECURSIVE PieceListsOfLen(_)
PieceListsOfLen(n) ==
  IF n = 0 THEN {<<>>}
  ELSE {<<p>> \o rest : p \in Pieces, rest \in PieceListsOfLen(n - 1)}

\* one template with all five placeholder kinds, each twice, interleaved
FiveKindsTemplate ==
  << Piece("releaseName", <<"{", "{", " ", ".", "R", "e", "l", "e", "a", "s", "e", ".", "N", "a", "m", "e", " ", "}", "}">>, <<>>),
     Piece("text", <<"-">>, <<>>),
     Piece("chartName", <<"{", "{", " ", ".", "C", "h", "a", "r", "t", ".", "N", "a", "m", "e", " ", "}", "}">>, <<>>),
     Piece("text", <<NL, "n", "a", "m", "e", "s", "p", "a", "c", "e", ":", " ">>, <<>>),
     Piece("namespace", <<"{", "{", " ", ".", "R", "e", "l", "e", "a", "s", "e", ".", "N", "a", "m", "e", "s", "p", "a", "c", "e", " ", "}", "}">>, <<>>),
     Piece("text", <<NL, "r", "e", "p", "l", "i", "c", "a", "s", ":", " ">>, <<>>),
     Piece("values", <<"{", "{", " ", ".", "V", "a", "l", "u", "e", "s", ".", "a", " ", "}", "}">>, <<"a">>),
     Piece("text", <<NL, "v", "e", "r", "s", "i", "o", "n", ":", " ">>, <<>>),
     Piece("chartVersion", <<"{", "{", " ", ".", "C", "h", "a", "r", "t", ".", "V", "e", "r", "s", "i", "o", "n", " ", "}", "}">>, <<>>),
     Piece("chartName", <<"{", "{", " ", ".", "C", "h", "a", "r", "t", ".", "N", "a", "m", "e", " ", "}", "}">>, <<>>),
     Piece("releaseName", <<"{", "{", " ", ".", "R", "e", "l", "e", "a", "s", "e", ".", "N", "a", "m", "e", " ", "}", "}">>, <<>>),
     Piece("values", <<"{", "{", " ", ".", "V", "a", "l", "u", "e", "s", ".", "a", " ", "}", "}">>, <<"a">>),
     Piece("chartVersion", <<"{", "{", " ", ".", "C", "h", "a", "r", "t", ".", "V", "e", "r", "s", "i", "o", "n", " ", "}", "}">>, <<>>),
     Piece("namespace", <<"{", "{", " ", ".", "R", "e", "l", "e", "a", "s", "e", ".", "N", "a", "m", "e", "s", "p", "a", "c", "e", " ", "}", "}">>, <<>>) >>

Templates ==
  (UNION {PieceListsOfLen(n) : n \in 0..MaxPieces}) \cup {FiveKindsTemplate}

\* the template string a list of pieces spells
TemplateText(pieces) == Join([i \in 1..Len(pieces) |-> pieces[i].text], <<>>)

\* TemplateContext
Context(values, releaseName, chartName, namespace, chartVersion) ==
  [values |-> values, releaseName |-> releaseName, chartName |-> chartName,
   namespace |-> namespace, chartVersion |-> chartVersion]

ProdContext(values) ==
  Context(values, Str(<<"p", "r", "o", "d">>), Str(<<"w", "e", "b", "a", "p", "p">>), Str(<<"p", "r", "o", "d", "u", "c", "t", "i", "o", "n">>), Str(<<"1", ".", "2", ".", "3">>))

Contexts ==
  { Context(Obj(<<>>), Undefined, Undefined, Undefined, Undefined),
    ProdContext(Obj(<< <<<<"a">>, Num(3)>> >>)),
    ProdContext(Obj(<< <<<<"a">>, Num(0)>> >>)),
    ProdContext(Obj(<< <<<<"a">>, Bool(FALSE)>> >>)),
    ProdContext(Obj(<< <<<<"a">>, Str(<<"n", "g", "i", "n", "x">>)>> >>)),
    ProdContext(Obj(<< <<<<"a">>, Obj(<< <<<<"b">>, Str(<<"n", "g", "i", "n", "x">>)>> >>)>> >>)),
    ProdContext(Obj(<< <<<<"a">>, Null>> >>)),
    ProdContext(Obj(<< <<<<"a">>, Arr(<<Str(<<"x">>)>>)>> >>)),
    ProdContext(Obj(<< <<<<"a">>, Str(<<"$", "&">>)>> >>)),
    ProdContext(Obj(<< <<<<"a">>, Str(<<"{", "{", " ", ".", "C", "h", "a", "r", "t", ".", "N", "a", "m", "e", " ", "}", "}">>)>> >>)),
    ProdContext(Obj(<< <<<<"a">>, Str(<<"{">>)>> >>)),
    Context(Obj(<<>>), Str(<<>>), Str(<<"a", "$", "b">>), Str(<<"U", "S", "$">>), Undefined),
    Context(Obj(<<>>), Str(<<"$", "&">>), Str(<<"$", "$">>), Str(<<"$", GRAVE>>), Str(<<"$", "'">>)),
    Context(Obj(<<>>), Str(<<"{", "{", " ", ".", "C", "h", "a", "r", "t", ".", "N", "a", "m", "e", " ", "}", "}">>), Str(<<"w", "e", "b", "a", "p", "p">>),
            Str(<<"{", "{", " ", ".", "R", "e", "l", "e", "a", "s", "e", ".", "N", "a", "m", "e", " ", "}", "}">>), Undefined) }

InitTemplate ==
  /\ input \in {[pieces |-> ps, context |-> c] : ps \in Templates, c \in Contexts}
  /\ output = <<>>
  /\ op = "none"

CallRenderTemplate ==
  /\ op = "none"
  /\ output' = renderTemplate(TemplateText(input.pieces), input.context)
  /\ op' = "renderTemplate"
  /\ UNCHANGED input

NextTemplate == CallRenderTemplate

SpecTemplate == InitTemplate /\ [][NextTemplate]_vars

\* --------------------------------------------------- template claim helpers

Rendered == op = "renderTemplate"

\* the value of an own key of a mapping
HasKey(mapping, key) == \E i \in 1..Len(mapping.props) : mapping.props[i][1] = key

ValueOfKey(mapping, key) ==
  mapping.props[CHOOSE i \in 1..Len(mapping.props) : mapping.props[i][1] = key][2]

Absent == [t |-> "absent"]

RECURSIVE Walk(_, _)
\* the walk of the claims: segment by segment through mappings; Absent when a
\* segment names a key the mapping reached so far does not have or when the
\* value reached so far is not a mapping
Walk(current, segments) ==
  IF Len(segments) = 0 THEN current
  ELSE IF current.t = "object" /\ HasKey(current, segments[1])
       THEN Walk(ValueOfKey(current, segments[1]), Tail(segments))
       ELSE Absent

Resolved(piece, context) == Walk(context.values, Split(piece.path, "."))

\* the literal text of a string, number or boolean
LiteralText(value) ==
  CASE value.t = "string" -> value.s
    [] value.t = "number" -> NumberToString(value.n)
    [] value.t = "boolean" ->
         IF value.b THEN <<"t", "r", "u", "e">> ELSE <<"f", "a", "l", "s", "e">>

IsLiteral(value) == value.t \in {"string", "number", "boolean"}

DefaultOf(kind) ==
  CASE kind = "releaseName" -> <<"r", "e", "l", "e", "a", "s", "e">>
    [] kind = "chartName" -> <<"c", "h", "a", "r", "t">>
    [] kind = "namespace" -> <<"d", "e", "f", "a", "u", "l", "t">>
    [] kind = "chartVersion" -> <<"0", ".", "1", ".", "0">>

FieldOf(context, kind) ==
  CASE kind = "releaseName" -> context.releaseName
    [] kind = "chartName" -> context.chartName
    [] kind = "namespace" -> context.namespace
    [] kind = "chartVersion" -> context.chartVersion

\* what the claims put in the place of a piece
ExpectedText(piece, context) ==
  CASE piece.kind \in {"text", "other"} -> piece.text
    [] piece.kind \in FixedKinds ->
         IF FieldOf(context, piece.kind).t = "string"
         THEN FieldOf(context, piece.kind).s
         ELSE DefaultOf(piece.kind)
    [] piece.kind = "values" ->
         IF IsLiteral(Resolved(piece, context))
         THEN LiteralText(Resolved(piece, context))
         ELSE <<>>

ExpectedOutput(pieces, context) ==
  Join([i \in 1..Len(pieces) |-> ExpectedText(pieces[i], context)], <<>>)

HasPiece(kinds) == \E i \in 1..Len(input.pieces) : input.pieces[i].kind \in kinds

OnlyPieces(kinds) == \A i \in 1..Len(input.pieces) : input.pieces[i].kind \in kinds

\* C11: when every placeholder of the template is a .Values placeholder whose
\* path resolves to a string, number or boolean, the output of renderTemplate
\* is the template with each placeholder replaced by the literal text of its
\* value (0 for 0, false for false) and the text between them kept.
C11_ScalarValueLiteral ==
  (/\ Rendered
   /\ OnlyPieces({"text", "values"})
   /\ \A i \in 1..Len(input.pieces) :
        input.pieces[i].kind = "values" => IsLiteral(Resolved(input.pieces[i], input.context)))
    => output = ExpectedOutput(input.pieces, input.context)

\* C12: when every placeholder of the template is a .Values placeholder with a
\* segment naming a key absent from the mapping reached so far, or with an
\* intermediate value that is not a mapping, the output of renderTemplate is
\* the template with each placeholder replaced by the empty string.
C12_UnresolvedValueEmpty ==
  (/\ Rendered
   /\ OnlyPieces({"text", "values"})
   /\ \A i \in 1..Len(input.pieces) :
        input.pieces[i].kind = "values" => Resolved(input.pieces[i], input.context) = Absent)
    => output = ExpectedOutput(input.pieces, input.context)

\* C13: when the template's placeholders are the four fixed ones, each is
\* replaced by the context field of its kind when the field is present and by
\* the default (release, chart, default, 0.1.0) when it is absent, and the text
\* between them is kept.
C13_DefaultOrField ==
  (Rendered /\ OnlyPieces({"text"} \cup FixedKinds))
    => output = ExpectedOutput(input.pieces, input.context)

RECURSIVE StringLeaves(_)
\* the strings found in a value
StringLeaves(value) ==
  CASE value.t = "string" -> {value.s}
    [] value.t = "array" ->
         UNION {StringLeaves(value.items[i]) : i \in 1..Len(value.items)}
    [] value.t = "object" ->
         UNION {StringLeaves(value.props[i][2]) : i \in 1..Len(value.props)}
    [] OTHER -> {}

\* the strings a context can put into the output
ContextStrings(context) ==
  StringLeaves(context.values)
    \cup UNION {StringLeaves(FieldOf(context, kind)) : kind \in FixedKinds}

\* a match of one of the five patterns starts at position i of s
PlaceholderAt(s, i) ==
  \/ MatchValues(s, i).end > 0
  \/ \E kind \in FixedKinds : MatchFixed(s, i, FixedPattern(kind)) > 0

\* C14: when no string of the context contains a brace, so that every
\* placeholder of the output would be one left over from the template, the
\* output of renderTemplate contains no match of any of the five patterns.
C14_NoPlaceholderLeft ==
  (Rendered /\ \A s \in ContextStrings(input.context) : ~Includes(s, "{"))
    => \A i \in 1..Len(output) : ~PlaceholderAt(output, i)

RECURSIVE Kept(_, _)
\* the text s is the pieces in order, each text piece and each unrecognized
\* sequence as it stands and any text at all for each recognized placeholder
Kept(pieces, s) ==
  IF Len(pieces) = 0 THEN s = <<>>
  ELSE IF pieces[1].kind \in {"text", "other"}
       THEN /\ IsPrefix(pieces[1].text, s)
            /\ Kept(Tail(pieces), SubSeq(s, Len(pieces[1].text) + 1, Len(s)))
       ELSE \E k \in 0..Len(s) : Kept(Tail(pieces), SubSeq(s, k + 1, Len(s)))

\* C15: the output of renderTemplate is the template with every recognized
\* placeholder replaced by some text and everything else (the {{ ... }}
\* sequences no pattern matches, the text outside placeholders) unchanged, in
\* the same order.
C15_RestUnchanged == Rendered => Kept(input.pieces, output)

\* C16: when the template's placeholders are the four fixed ones and the
\* context has its four strings, none with a brace but some with the
\* character $, each placeholder is replaced by exactly the context string of
\* its kind.
C16_DollarVerbatim ==
  (/\ Rendered
   /\ OnlyPieces({"text"} \cup FixedKinds)
   /\ \A kind \in FixedKinds :
        /\ FieldOf(input.context, kind).t = "string"
        /\ ~Includes(FieldOf(input.context, kind).s, "{"))
    => output = ExpectedOutput(input.pieces, input.context)

\* the end of the placeholder that starts at position j of str
PlaceholderEnd(str, j) ==
  IF MatchValues(str, j).end > 0 THEN MatchValues(str, j).end
  ELSE IF MatchFixed(str, j, FixedPattern("releaseName")) > 0 THEN MatchFixed(str, j, FixedPattern("releaseName"))
  ELSE IF MatchFixed(str, j, FixedPattern("chartName")) > 0 THEN MatchFixed(str, j, FixedPattern("chartName"))
  ELSE IF MatchFixed(str, j, FixedPattern("namespace")) > 0
       THEN MatchFixed(str, j, FixedPattern("namespace"))
  ELSE MatchFixed(str, j, FixedPattern("chartVersion"))

\* what the single pass puts in the place of the placeholder that starts at
\* position j, by the pattern it matches
DispatchAt(str, j, context) ==
  IF MatchValues(str, j).end > 0
  THEN ValuesReplacer(context.values, MatchValues(str, j).path)
  ELSE IF MatchFixed(str, j, FixedPattern("releaseName")) > 0
       THEN OrDefault(context.releaseName, DefaultOf("releaseName"))
  ELSE IF MatchFixed(str, j, FixedPattern("chartName")) > 0
       THEN OrDefault(context.chartName, DefaultOf("chartName"))
  ELSE IF MatchFixed(str, j, FixedPattern("namespace")) > 0
       THEN OrDefault(context.namespace, DefaultOf("namespace"))
  ELSE OrDefault(context.chartVersion, DefaultOf("chartVersion"))

RECURSIVE SinglePass(_, _, _)
\* one left-to-right pass over the template from position i
SinglePass(str, i, context) ==
  LET j == FirstOf({k \in i..Len(str) : PlaceholderAt(str, k)})
  IN IF j = 0 THEN SubSeq(str, i, Len(str))
     ELSE SubSeq(str, i, j - 1) \o DispatchAt(str, j, context)
            \o SinglePass(str, PlaceholderEnd(str, j), context)

\* C20: for every template and every context whose four strings are free of
\* the character $, the output of the five passes of renderTemplate is the
\* output of a single left-to-right pass over the template that replaces each
\* placeholder according to the pattern it matches.
C20_SinglePassEquivalent ==
  (/\ Rendered
   /\ \A kind \in FixedKinds :
        FieldOf(input.context, kind).t = "string"
          => ~Includes(FieldOf(input.context, kind).s, "$"))
    => output = SinglePass(TemplateText(input.pieces), 1, input.context)

\* ================================================ manifest and helm builders
\*
\* Objects live in a heap: a sequence of cells, each an object or an array
\* whose members are primitive values or references to other cells.  A builder
\* takes the heap and its arguments and gives the heap after the call and the
\* reference it returns; the parts a result shares with its argument are the
\* same cells.

Ref(addr) == [t |-> "ref", addr |-> addr]

IsContainer(value) == value.t \in {"object", "array"}

\* the cell a reference points to
Cell(h, ref) == h[ref.addr]

\* props with key set to value: in place when the key is there, else appended
\* (an object literal with a spread and a later key)
With(props, key, value) ==
  IF \E i \in 1..Len(props) : props[i][1] = key
  THEN [i \in 1..Len(props) |-> IF props[i][1] = key THEN <<key, value>> ELSE props[i]]
  ELSE Append(props, <<key, value>>)

\* props[key], undefined when the key is absent
Prop(props, key) ==
  IF \E i \in 1..Len(props) : props[i][1] = key
  THEN props[CHOOSE i \in 1..Len(props) : props[i][1] = key][2]
  ELSE Undefined

\* { ...value }: the properties of the object a reference points to, none for
\* undefined
Spread(h, value) == IF value.t = "ref" THEN Cell(h, value).props ELSE <<>>

\* [ ...value ]
SpreadItems(h, value) == IF value.t = "ref" THEN Cell(h, value).items ELSE <<>>

\* ref.key
Field(h, ref, key) == Prop(Cell(h, ref).props, key)

\* the members of an object or array literal, left to right
Members(value) ==
  IF value.t = "object" THEN [i \in 1..Len(value.props) |-> value.props[i][2]]
  ELSE value.items

RECURSIVE LiteralCount(_)
RECURSIVE LiteralCountOf(_, _)

\* the number of object and array literals in an expression
LiteralCount(value) ==
  IF ~IsContainer(value) THEN 0
  ELSE 1 + LiteralCountOf(Members(value), Len(Members(value)))

\* the number of literals in the first n members
LiteralCountOf(members, n) ==
  IF n = 0 THEN 0 ELSE LiteralCountOf(members, n - 1) + LiteralCount(members[n])

\* the value of an expression evaluated when the heap has base cells: a
\* reference to the cell of the literal, the value itself when it is no literal
StoredValue(value, base) ==
  IF IsContainer(value) THEN Ref(base + LiteralCount(value)) ELSE value

RECURSIVE NewCells(_, _)
\* the cells the literals of an expression add to a heap of base cells: the
\* cells of the members, left to right, then the cell of the literal itself
NewCells(value, base) ==
  IF ~IsContainer(value) THEN <<>>
  ELSE LET members == Members(value)
           baseOf(i) == base + LiteralCountOf(members, i - 1)
           stored == [i \in 1..Len(members) |-> StoredValue(members[i], baseOf(i))]
           cell == IF value.t = "object"
                   THEN Obj([i \in 1..Len(members) |-> <<value.props[i][1], stored[i]>>])
                   ELSE Arr(stored)
       IN Join([i \in 1..Len(members) |-> NewCells(members[i], baseOf(i))], <<>>)
            \o <<cell>>

\* evaluation of the object and array literals of an expression: every
\* literal becomes a new cell, what is already a reference stays one.  Gives
\* the heap after it and the value (a reference for a literal).
Store(h, value) ==
  [heap |-> h \o NewCells(value, Len(h)), value |-> StoredValue(value, Len(h))]

RECURSIVE Deep(_, _)
\* the value a reference stands for, with everything reachable from it
Deep(h, value) ==
  IF value.t # "ref" THEN value
  ELSE LET cell == Cell(h, value)
       IN IF cell.t = "object"
          THEN Obj([i \in 1..Len(cell.props) |->
                      <<cell.props[i][1], Deep(h, cell.props[i][2])>>])
          ELSE Arr([i \in 1..Len(cell.items) |-> Deep(h, cell.items[i])])

\* a ?? b
Coalesce(a, b) == IF a.t \in {"null", "undefined"} THEN b ELSE a

RECURSIVE Merge(_, _)
\* { ...base, ...extra }: the later keys win, in the earlier key's place
Merge(base, extra) ==
  IF Len(extra) = 0 THEN base
  ELSE Merge(With(base, extra[1][1], extra[1][2]), Tail(extra))

\* the truth value of a value in a condition
Truthy(value) ==
  CASE value.t \in {"null", "undefined"} -> FALSE
    [] value.t = "boolean" -> value.b
    [] value.t = "number" -> value.n # 0
    [] value.t = "string" -> value.s # <<>>
    [] OTHER -> TRUE

\* ------------------------------------------------------------- deployment

\* createDeployment; options is a reference to the options object
createDeployment(h, options) ==
  LET opt == Cell(h, options).props
      appLabels == Store(h, Obj(Merge(<< <<<<"a", "p", "p">>, Prop(opt, <<"n", "a", "m", "e">>)>> >>,
                                      Spread(h, Prop(opt, <<"l", "a", "b", "e", "l", "s">>)))))
      container ==
        Obj(<< <<<<"n", "a", "m", "e">>, Prop(opt, <<"n", "a", "m", "e">>)>>,
               <<<<"i", "m", "a", "g", "e">>, Prop(opt, <<"i", "m", "a", "g", "e">>)>>,
               <<<<"i", "m", "a", "g", "e", "P", "u", "l", "l", "P", "o", "l", "i", "c", "y">>,
                 Coalesce(Prop(opt, <<"i", "m", "a", "g", "e", "P", "u", "l", "l", "P", "o", "l", "i", "c", "y">>), Str(<<"I", "f", "N", "o", "t", "P", "r", "e", "s", "e", "n", "t">>))>>,
               <<<<"p", "o", "r", "t", "s">>,
                 IF Truthy(Prop(opt, <<"p", "o", "r", "t">>))
                 THEN Arr(<< Obj(<< <<<<"c", "o", "n", "t", "a", "i", "n", "e", "r", "P", "o", "r", "t">>, Prop(opt, <<"p", "o", "r", "t">>)>>,
                                    <<<<"p", "r", "o", "t", "o", "c", "o", "l">>, Str(<<"T", "C", "P">>)>> >>) >>)
                 ELSE Undefined>>,
               <<<<"e", "n", "v">>, Prop(opt, <<"e", "n", "v">>)>>,
               <<<<"r", "e", "s", "o", "u", "r", "c", "e", "s">>, Prop(opt, <<"r", "e", "s", "o", "u", "r", "c", "e", "s">>)>>,
               <<<<"l", "i", "v", "e", "n", "e", "s", "s", "P", "r", "o", "b", "e">>, Prop(opt, <<"l", "i", "v", "e", "n", "e", "s", "s", "P", "r", "o", "b", "e">>)>>,
               <<<<"r", "e", "a", "d", "i", "n", "e", "s", "s", "P", "r", "o", "b", "e">>, Prop(opt, <<"r", "e", "a", "d", "i", "n", "e", "s", "s", "P", "r", "o", "b", "e">>)>>,
               <<<<"s", "t", "a", "r", "t", "u", "p", "P", "r", "o", "b", "e">>, Prop(opt, <<"s", "t", "a", "r", "t", "u", "p", "P", "r", "o", "b", "e">>)>>,
               <<<<"c", "o", "m", "m", "a", "n", "d">>, Prop(opt, <<"c", "o", "m", "m", "a", "n", "d">>)>>,
               <<<<"a", "r", "g", "s">>, Prop(opt, <<"a", "r", "g", "s">>)>> >>)
      metadata ==
        Obj(<< <<<<"n", "a", "m", "e">>, Prop(opt, <<"n", "a", "m", "e">>)>>,
               <<<<"n", "a", "m", "e", "s", "p", "a", "c", "e">>, Prop(opt, <<"n", "a", "m", "e", "s", "p", "a", "c", "e">>)>>,
               <<<<"l", "a", "b", "e", "l", "s">>, appLabels.value>>,
               <<<<"a", "n", "n", "o", "t", "a", "t", "i", "o", "n", "s">>, Prop(opt, <<"a", "n", "n", "o", "t", "a", "t", "i", "o", "n", "s">>)>> >>)
  IN Store(appLabels.heap,
       Obj(<< <<<<"a", "p", "i", "V", "e", "r", "s", "i", "o", "n">>, Str(<<"a", "p", "p", "s", "/", "v", "1">>)>>,
              <<<<"k", "i", "n", "d">>, Str(<<"D", "e", "p", "l", "o", "y", "m", "e", "n", "t">>)>>,
              <<<<"m", "e", "t", "a", "d", "a", "t", "a">>, metadata>>,
              <<<<"s", "p", "e", "c">>,
                Obj(<< <<<<"r", "e", "p", "l", "i", "c", "a", "s">>, Coalesce(Prop(opt, <<"r", "e", "p", "l", "i", "c", "a", "s">>), Num(1))>>,
                       <<<<"s", "e", "l", "e", "c", "t", "o", "r">>,
                         Obj(<< <<<<"m", "a", "t", "c", "h", "L", "a", "b", "e", "l", "s">>,
                                  Obj(<< <<<<"a", "p", "p">>, Prop(opt, <<"n", "a", "m", "e">>)>> >>)>> >>)>>,
                       <<<<"t", "e", "m", "p", "l", "a", "t", "e">>,
                         Obj(<< <<<<"m", "e", "t", "a", "d", "a", "t", "a">>, Obj(<< <<<<"l", "a", "b", "e", "l", "s">>, appLabels.value>> >>)>>,
                                <<<<"s", "p", "e", "c">>,
                                  Obj(<< <<<<"c", "o", "n", "t", "a", "i", "n", "e", "r", "s">>, Arr(<<container>>)>>,
                                         <<<<"r", "e", "s", "t", "a", "r", "t", "P", "o", "l", "i", "c", "y">>, Str(<<"A", "l", "w", "a", "y", "s">>)>>,
                                         <<<<"s", "e", "r", "v", "i", "c", "e", "A", "c", "c", "o", "u", "n", "t", "N", "a", "m", "e">>,
                                           Prop(opt, <<"s", "e", "r", "v", "i", "c", "e", "A", "c", "c", "o", "u", "n", "t", "N", "a", "m", "e">>)>>,
                                         <<<<"n", "o", "d", "e", "S", "e", "l", "e", "c", "t", "o", "r">>, Prop(opt, <<"n", "o", "d", "e", "S", "e", "l", "e", "c", "t", "o", "r">>)>> >>)>> >>)>>,
                       <<<<"s", "t", "r", "a", "t", "e", "g", "y">>,
                         IF Truthy(Prop(opt, <<"s", "t", "r", "a", "t", "e", "g", "y">>))
                         THEN Obj(<< <<<<"t", "y", "p", "e">>, Prop(opt, <<"s", "t", "r", "a", "t", "e", "g", "y">>)>> >>)
                         ELSE Obj(<< <<<<"t", "y", "p", "e">>, Str(<<"R", "o", "l", "l", "i", "n", "g", "U", "p", "d", "a", "t", "e">>)>>,
                                     <<<<"r", "o", "l", "l", "i", "n", "g", "U", "p", "d", "a", "t", "e">>,
                                       Obj(<< <<<<"m", "a", "x", "S", "u", "r", "g", "e">>, Str(<<"2", "5", "%">>)>>,
                                              <<<<"m", "a", "x", "U", "n", "a", "v", "a", "i", "l", "a", "b", "l", "e">>, Str(<<"2", "5", "%">>)>> >>)>> >>)>>,
                       <<<<"r", "e", "v", "i", "s", "i", "o", "n", "H", "i", "s", "t", "o", "r", "y", "L", "i", "m", "i", "t">>,
                         Coalesce(Prop(opt, <<"r", "e", "v", "i", "s", "i", "o", "n", "H", "i", "s", "t", "o", "r", "y", "L", "i", "m", "i", "t">>), Num(10))>> >>)>> >>))

\* the deployment with the pod's containers replaced: the literal that
\* addContainer and setResources return
WithContainers(h, deployment, containers) ==
  LET spec == Field(h, deployment, <<"s", "p", "e", "c">>)
      template == Field(h, spec, <<"t", "e", "m", "p", "l", "a", "t", "e">>)
  IN Obj(With(Spread(h, deployment), <<"s", "p", "e", "c">>,
       Obj(With(Spread(h, spec), <<"t", "e", "m", "p", "l", "a", "t", "e">>,
         Obj(With(Spread(h, template), <<"s", "p", "e", "c">>,
           Obj(With(Spread(h, Field(h, template, <<"s", "p", "e", "c">>)), <<"c", "o", "n", "t", "a", "i", "n", "e", "r", "s">>,
                    containers))))))))

\* deployment.spec.template.spec.containers
Containers(h, deployment) ==
  Field(h, Field(h, Field(h, Field(h, deployment, <<"s", "p", "e", "c">>), <<"t", "e", "m", "p", "l", "a", "t", "e">>), <<"s", "p", "e", "c">>),
        <<"c", "o", "n", "t", "a", "i", "n", "e", "r", "s">>)

setReplicas(h, deployment, replicas) ==
  Store(h, Obj(With(Spread(h, deployment), <<"s", "p", "e", "c">>,
                 Obj(With(Spread(h, Field(h, deployment, <<"s", "p", "e", "c">>)), <<"r", "e", "p", "l", "i", "c", "a", "s">>,
                          replicas)))))

addContainer(h, deployment, container) ==
  Store(h, WithContainers(h, deployment,
             Arr(Append(SpreadItems(h, Containers(h, deployment)), container))))

\* the copy of the containers, containers[0] = { ...containers[0], resources }
\* on the copy, and the literal returned
setResources(h, deployment, resources) ==
  LET containers == SpreadItems(h, Containers(h, deployment))
      first == Obj(With(Spread(h, IF Len(containers) = 0 THEN Undefined ELSE containers[1]),
                        <<"r", "e", "s", "o", "u", "r", "c", "e", "s">>, resources))
  IN Store(h, WithContainers(h, deployment,
                Arr(<<first>> \o (IF Len(containers) = 0 THEN <<>> ELSE Tail(containers)))))

\* setStrategy; options is undefined or a reference to the options object
setStrategy(h, deployment, strategy, options) ==
  Store(h, Obj(With(Spread(h, deployment), <<"s", "p", "e", "c">>,
    Obj(With(Spread(h, Field(h, deployment, <<"s", "p", "e", "c">>)), <<"s", "t", "r", "a", "t", "e", "g", "y">>,
      IF strategy = Str(<<"R", "e", "c", "r", "e", "a", "t", "e">>)
      THEN Obj(<< <<<<"t", "y", "p", "e">>, Str(<<"R", "e", "c", "r", "e", "a", "t", "e">>)>> >>)
      ELSE Obj(<< <<<<"t", "y", "p", "e">>, Str(<<"R", "o", "l", "l", "i", "n", "g", "U", "p", "d", "a", "t", "e">>)>>,
                  <<<<"r", "o", "l", "l", "i", "n", "g", "U", "p", "d", "a", "t", "e">>,
                    Obj(<< <<<<"m", "a", "x", "S", "u", "r", "g", "e">>,
                             Coalesce(Prop(Spread(h, options), <<"m", "a", "x", "S", "u", "r", "g", "e">>), Str(<<"2", "5", "%">>))>>,
                           <<<<"m", "a", "x", "U", "n", "a", "v", "a", "i", "l", "a", "b", "l", "e">>,
                             Coalesce(Prop(Spread(h, options), <<"m", "a", "x", "U", "n", "a", "v", "a", "i", "l", "a", "b", "l", "e">>),
                                      Str(<<"2", "5", "%">>))>> >>)>> >>))))))

\* the errors validateContainer pushes for one container
ContainerErrors(container) ==
  (IF ~Truthy(Prop(container.props, <<"n", "a", "m", "e">>))
   THEN <<<<"C", "o", "n", "t", "a", "i", "n", "e", "r", " ", "m", "u", "s", "t", " ", "h", "a", "v", "e", " ", "a", " ", "n", "a", "m", "e">>>> ELSE <<>>)
    \o (IF ~Truthy(Prop(container.props, <<"i", "m", "a", "g", "e">>))
        THEN <<<<"C", "o", "n", "t", "a", "i", "n", "e", "r", " ", "m", "u", "s", "t", " ", "h", "a", "v", "e", " ", "a", "n", " ", "i", "m", "a", "g", "e">>>> ELSE <<>>)

RECURSIVE AllContainerErrors(_)
AllContainerErrors(containers) ==
  IF Len(containers) = 0 THEN <<>>
  ELSE ContainerErrors(containers[1]) \o AllContainerErrors(Tail(containers))

SelectorErrorText(key, value) ==
  <<"S", "e", "l", "e", "c", "t", "o", "r", " ", "l", "a", "b", "e", "l", " ", "'">> \o key \o <<"=">> \o StringOf(value)
    \o <<"'", " ", "n", "o", "t", " ", "f", "o", "u", "n", "d", " ", "i", "n", " ", "t", "e", "m", "p", "l", "a", "t", "e", " ", "l", "a", "b", "e", "l", "s">>

RECURSIVE SelectorErrors(_, _)
\* the loop over Object.entries(selectorLabels)
SelectorErrors(entries, templateLabels) ==
  IF Len(entries) = 0 THEN <<>>
  ELSE (IF Prop(templateLabels, entries[1][1]) # entries[1][2]
        THEN <<SelectorErrorText(entries[1][1], entries[1][2])>>
        ELSE <<>>)
         \o SelectorErrors(Tail(entries), templateLabels)

\* validateDeployment(deployment).errors, the deployment given with all it
\* holds
validateDeploymentErrors(deployment) ==
  LET metadata == Prop(deployment.props, <<"m", "e", "t", "a", "d", "a", "t", "a">>)
      spec == Prop(deployment.props, <<"s", "p", "e", "c">>)
      name == Prop(metadata.props, <<"n", "a", "m", "e">>)
      replicas == Prop(spec.props, <<"r", "e", "p", "l", "i", "c", "a", "s">>)
      template == Prop(spec.props, <<"t", "e", "m", "p", "l", "a", "t", "e">>)
      containers == Prop(Prop(template.props, <<"s", "p", "e", "c">>).props, <<"c", "o", "n", "t", "a", "i", "n", "e", "r", "s">>).items
      selectorLabels == Prop(Prop(spec.props, <<"s", "e", "l", "e", "c", "t", "o", "r">>).props, <<"m", "a", "t", "c", "h", "L", "a", "b", "e", "l", "s">>)
      templateMetadata == Prop(template.props, <<"m", "e", "t", "a", "d", "a", "t", "a">>)
      templateLabels ==
        IF templateMetadata.t = "object"
        THEN Coalesce(Prop(templateMetadata.props, <<"l", "a", "b", "e", "l", "s">>), Obj(<<>>))
        ELSE Obj(<<>>)
  IN (IF ~Truthy(name) THEN <<<<"D", "e", "p", "l", "o", "y", "m", "e", "n", "t", " ", "m", "u", "s", "t", " ", "h", "a", "v", "e", " ", "a", " ", "n", "a", "m", "e">>>>
      ELSE IF Len(name.s) > 253 THEN <<<<"D", "e", "p", "l", "o", "y", "m", "e", "n", "t", " ", "n", "a", "m", "e", " ", "m", "u", "s", "t", " ", "b", "e", " ", "<", "=", " ", "2", "5", "3", " ", "c", "h", "a", "r", "a", "c", "t", "e", "r", "s">>>>
      ELSE <<>>)
       \o (IF replicas.t # "undefined" /\ replicas.n < 0
           THEN <<<<"R", "e", "p", "l", "i", "c", "a", "s", " ", "m", "u", "s", "t", " ", "b", "e", " ", ">", "=", " ", "0">>>> ELSE <<>>)
       \o (IF Len(containers) = 0
           THEN <<<<"A", "t", " ", "l", "e", "a", "s", "t", " ", "o", "n", "e", " ", "c", "o", "n", "t", "a", "i", "n", "e", "r", " ", "i", "s", " ", "r", "e", "q", "u", "i", "r", "e", "d">>>> ELSE <<>>)
       \o AllContainerErrors(containers)
       \o SelectorErrors(ObjectEntries(selectorLabels), templateLabels.props)

\* ------------------------------------------------------------------- hpa

\* the Resource metric literal of createHPA, setCPUTarget and setMemoryTarget
ResourceMetric(name, averageUtilization) ==
  Obj(<< <<<<"t", "y", "p", "e">>, Str(<<"R", "e", "s", "o", "u", "r", "c", "e">>)>>,
         <<<<"r", "e", "s", "o", "u", "r", "c", "e">>,
           Obj(<< <<<<"n", "a", "m", "e">>, Str(name)>>,
                  <<<<"t", "a", "r", "g", "e", "t">>,
                    Obj(<< <<<<"t", "y", "p", "e">>, Str(<<"U", "t", "i", "l", "i", "z", "a", "t", "i", "o", "n">>)>>,
                           <<<<"a", "v", "e", "r", "a", "g", "e", "U", "t", "i", "l", "i", "z", "a", "t", "i", "o", "n">>, averageUtilization>> >>)>> >>)>> >>)

createHPA(h, options) ==
  LET opt == Cell(h, options).props
      metrics ==
        (IF Prop(opt, <<"c", "p", "u", "U", "t", "i", "l", "i", "z", "a", "t", "i", "o", "n">>).t # "undefined"
         THEN <<ResourceMetric(<<"c", "p", "u">>, Prop(opt, <<"c", "p", "u", "U", "t", "i", "l", "i", "z", "a", "t", "i", "o", "n">>))>> ELSE <<>>)
          \o (IF Prop(opt, <<"m", "e", "m", "o", "r", "y", "U", "t", "i", "l", "i", "z", "a", "t", "i", "o", "n">>).t # "undefined"
              THEN <<ResourceMetric(<<"m", "e", "m", "o", "r", "y">>, Prop(opt, <<"m", "e", "m", "o", "r", "y", "U", "t", "i", "l", "i", "z", "a", "t", "i", "o", "n">>))>>
              ELSE <<>>)
  IN Store(h,
       Obj(<< <<<<"a", "p", "i", "V", "e", "r", "s", "i", "o", "n">>, Str(<<"a", "u", "t", "o", "s", "c", "a", "l", "i", "n", "g", "/", "v", "2">>)>>,
              <<<<"k", "i", "n", "d">>, Str(<<"H", "o", "r", "i", "z", "o", "n", "t", "a", "l", "P", "o", "d", "A", "u", "t", "o", "s", "c", "a", "l", "e", "r">>)>>,
              <<<<"m", "e", "t", "a", "d", "a", "t", "a">>,
                Obj(<< <<<<"n", "a", "m", "e">>, Prop(opt, <<"n", "a", "m", "e">>)>>,
                       <<<<"n", "a", "m", "e", "s", "p", "a", "c", "e">>, Prop(opt, <<"n", "a", "m", "e", "s", "p", "a", "c", "e">>)>>,
                       <<<<"l", "a", "b", "e", "l", "s">>,
                         Obj(Merge(<< <<<<"a", "p", "p">>, Prop(opt, <<"n", "a", "m", "e">>)>> >>,
                                   Spread(h, Prop(opt, <<"l", "a", "b", "e", "l", "s">>))))>> >>)>>,
              <<<<"s", "p", "e", "c">>,
                Obj(<< <<<<"s", "c", "a", "l", "e", "T", "a", "r", "g", "e", "t", "R", "e", "f">>,
                         Obj(<< <<<<"a", "p", "i", "V", "e", "r", "s", "i", "o", "n">>, Str(<<"a", "p", "p", "s", "/", "v", "1">>)>>,
                                <<<<"k", "i", "n", "d">>, Str(<<"D", "e", "p", "l", "o", "y", "m", "e", "n", "t">>)>>,
                                <<<<"n", "a", "m", "e">>, Prop(opt, <<"t", "a", "r", "g", "e", "t", "D", "e", "p", "l", "o", "y", "m", "e", "n", "t">>)>> >>)>>,
                       <<<<"m", "i", "n", "R", "e", "p", "l", "i", "c", "a", "s">>, Coalesce(Prop(opt, <<"m", "i", "n", "R", "e", "p", "l", "i", "c", "a", "s">>), Num(1))>>,
                       <<<<"m", "a", "x", "R", "e", "p", "l", "i", "c", "a", "s">>, Prop(opt, <<"m", "a", "x", "R", "e", "p", "l", "i", "c", "a", "s">>)>>,
                       <<<<"m", "e", "t", "r", "i", "c", "s">>,
                         IF Len(metrics) > 0 THEN Arr(metrics) ELSE Undefined>> >>)>> >>))

\* m.type === 'Resource' && m.resource?.name === name, m a member of metrics
IsResourceMetric(h, m, name) ==
  /\ Field(h, m, <<"t", "y", "p", "e">>) = Str(<<"R", "e", "s", "o", "u", "r", "c", "e">>)
  /\ Field(h, m, <<"r", "e", "s", "o", "u", "r", "c", "e">>).t = "ref"
  /\ Field(h, Field(h, m, <<"r", "e", "s", "o", "u", "r", "c", "e">>), <<"n", "a", "m", "e">>) = Str(name)

\* setCPUTarget pushing onto the metrics it finds, without the filter
setCPUTarget_NoFilter(h, hpa, percentage) ==
  LET spec == Field(h, hpa, <<"s", "p", "e", "c">>)
      metrics == SpreadItems(h, Field(h, spec, <<"m", "e", "t", "r", "i", "c", "s">>))
  IN Store(h, Obj(With(Spread(h, hpa), <<"s", "p", "e", "c">>,
                    Obj(With(Spread(h, spec), <<"m", "e", "t", "r", "i", "c", "s">>,
                          Arr(Append(metrics, ResourceMetric(<<"c", "p", "u">>, percentage))))))))

\* the metrics without the Resource metric named cpu (a new array), the push
\* of the new metric onto it, and the literal returned
setCPUTarget(h, hpa, percentage) ==
  LET spec == Field(h, hpa, <<"s", "p", "e", "c">>)
      metrics == SelectSeq(SpreadItems(h, Field(h, spec, <<"m", "e", "t", "r", "i", "c", "s">>)),
                        LAMBDA m : ~IsResourceMetric(h, m, <<"c", "p", "u">>))
  IN Store(h, Obj(With(Spread(h, hpa), <<"s", "p", "e", "c">>,
                    Obj(With(Spread(h, spec), <<"m", "e", "t", "r", "i", "c", "s">>,
                          Arr(Append(metrics, ResourceMetric(<<"c", "p", "u">>, percentage))))))))

setMemoryTarget(h, hpa, percentage) ==
  LET spec == Field(h, hpa, <<"s", "p", "e", "c">>)
      metrics == SelectSeq(SpreadItems(h, Field(h, spec, <<"m", "e", "t", "r", "i", "c", "s">>)),
                        LAMBDA m : ~IsResourceMetric(h, m, <<"m", "e", "m", "o", "r", "y">>))
  IN Store(h, Obj(With(Spread(h, hpa), <<"s", "p", "e", "c">>,
                    Obj(With(Spread(h, spec), <<"m", "e", "t", "r", "i", "c", "s">>,
                          Arr(Append(metrics, ResourceMetric(<<"m", "e", "m", "o", "r", "y">>, percentage))))))))

setScaleRange(h, hpa, min, max) ==
  Store(h, Obj(With(Spread(h, hpa), <<"s", "p", "e", "c">>,
                 Obj(With(With(Spread(h, Field(h, hpa, <<"s", "p", "e", "c">>)), <<"m", "i", "n", "R", "e", "p", "l", "i", "c", "a", "s">>, min),
                          <<"m", "a", "x", "R", "e", "p", "l", "i", "c", "a", "s">>, max)))))

\* value?.key
OptField(h, value, key) == IF value.t = "ref" THEN Field(h, value, key) ELSE Undefined

\* the metadata literal of createService, createConfigMap, createSecret and
\* createIngress
MetadataOf(h, opt) ==
  Obj(<< <<<<"n", "a", "m", "e">>, Prop(opt, <<"n", "a", "m", "e">>)>>,
         <<<<"n", "a", "m", "e", "s", "p", "a", "c", "e">>, Prop(opt, <<"n", "a", "m", "e", "s", "p", "a", "c", "e">>)>>,
         <<<<"l", "a", "b", "e", "l", "s">>,
           Obj(Merge(<< <<<<"a", "p", "p">>, Prop(opt, <<"n", "a", "m", "e">>)>> >>,
                     Spread(h, Prop(opt, <<"l", "a", "b", "e", "l", "s">>))))>>,
         <<<<"a", "n", "n", "o", "t", "a", "t", "i", "o", "n", "s">>, Prop(opt, <<"a", "n", "n", "o", "t", "a", "t", "i", "o", "n", "s">>)>> >>)

\* --------------------------------------------------------------- service

createService(h, options) ==
  LET opt == Cell(h, options).props
      port == Obj(<< <<<<"p", "o", "r", "t">>, Prop(opt, <<"p", "o", "r", "t">>)>>,
                     <<<<"t", "a", "r", "g", "e", "t", "P", "o", "r", "t">>,
                       Coalesce(Prop(opt, <<"t", "a", "r", "g", "e", "t", "P", "o", "r", "t">>), Prop(opt, <<"p", "o", "r", "t">>))>>,
                     <<<<"p", "r", "o", "t", "o", "c", "o", "l">>, Coalesce(Prop(opt, <<"p", "r", "o", "t", "o", "c", "o", "l">>), Str(<<"T", "C", "P">>))>>,
                     <<<<"n", "o", "d", "e", "P", "o", "r", "t">>, Prop(opt, <<"n", "o", "d", "e", "P", "o", "r", "t">>)>> >>)
  IN Store(h,
       Obj(<< <<<<"a", "p", "i", "V", "e", "r", "s", "i", "o", "n">>, Str(<<"v", "1">>)>>,
              <<<<"k", "i", "n", "d">>, Str(<<"S", "e", "r", "v", "i", "c", "e">>)>>,
              <<<<"m", "e", "t", "a", "d", "a", "t", "a">>, MetadataOf(h, opt)>>,
              <<<<"s", "p", "e", "c">>,
                Obj(<< <<<<"t", "y", "p", "e">>, Coalesce(Prop(opt, <<"t", "y", "p", "e">>), Str(<<"C", "l", "u", "s", "t", "e", "r", "I", "P">>))>>,
                       <<<<"s", "e", "l", "e", "c", "t", "o", "r">>,
                         Coalesce(Prop(opt, <<"s", "e", "l", "e", "c", "t", "o", "r">>),
                                  Obj(<< <<<<"a", "p", "p">>, Prop(opt, <<"n", "a", "m", "e">>)>> >>))>>,
                       <<<<"p", "o", "r", "t", "s">>, Arr(<<port>>)>>,
                       <<<<"s", "e", "s", "s", "i", "o", "n", "A", "f", "f", "i", "n", "i", "t", "y">>,
                         Coalesce(Prop(opt, <<"s", "e", "s", "s", "i", "o", "n", "A", "f", "f", "i", "n", "i", "t", "y">>), Str(<<"N", "o", "n", "e">>))>> >>)>> >>))

addServicePort(h, service, port) ==
  LET spec == Field(h, service, <<"s", "p", "e", "c">>)
  IN Store(h, Obj(With(Spread(h, service), <<"s", "p", "e", "c">>,
                    Obj(With(Spread(h, spec), <<"p", "o", "r", "t", "s">>,
                          Arr(Append(SpreadItems(h, Field(h, spec, <<"p", "o", "r", "t", "s">>)), port)))))))

setServiceType(h, service, type) ==
  Store(h, Obj(With(Spread(h, service), <<"s", "p", "e", "c">>,
                 Obj(With(Spread(h, Field(h, service, <<"s", "p", "e", "c">>)), <<"t", "y", "p", "e">>, type)))))

\* ---------------------------------------------------- config map, secret

createConfigMap(h, options) ==
  LET opt == Cell(h, options).props
  IN Store(h,
       Obj(<< <<<<"a", "p", "i", "V", "e", "r", "s", "i", "o", "n">>, Str(<<"v", "1">>)>>,
              <<<<"k", "i", "n", "d">>, Str(<<"C", "o", "n", "f", "i", "g", "M", "a", "p">>)>>,
              <<<<"m", "e", "t", "a", "d", "a", "t", "a">>, MetadataOf(h, opt)>>,
              <<<<"d", "a", "t", "a">>, Coalesce(Prop(opt, <<"d", "a", "t", "a">>), Obj(<<>>))>> >>))

setConfigData(h, configMap, key, value) ==
  Store(h, Obj(With(Spread(h, configMap), <<"d", "a", "t", "a">>,
                 Obj(With(Spread(h, Field(h, configMap, <<"d", "a", "t", "a">>)), key, value)))))

\* removeConfigData deleting the key from the data of the config map itself
removeConfigData_NoCopy(h, configMap, key) ==
  LET data == Field(h, configMap, <<"d", "a", "t", "a">>)
      deleted == IF data.t = "ref"
                 THEN [h EXCEPT ![data.addr] = Obj(SelectSeq(Cell(h, data).props, LAMBDA p : p[1] # key))]
                 ELSE h
  IN Store(deleted, Obj(With(Spread(deleted, configMap), <<"d", "a", "t", "a">>, data)))

\* the copy of the data, the delete on the copy, and the literal returned
removeConfigData(h, configMap, key) ==
  Store(h, Obj(With(Spread(h, configMap), <<"d", "a", "t", "a">>,
                 Obj(SelectSeq(Spread(h, Field(h, configMap, <<"d", "a", "t", "a">>)),
                              LAMBDA p : p[1] # key)))))

createSecret(h, options) ==
  LET opt == Cell(h, options).props
  IN Store(h,
       Obj(<< <<<<"a", "p", "i", "V", "e", "r", "s", "i", "o", "n">>, Str(<<"v", "1">>)>>,
              <<<<"k", "i", "n", "d">>, Str(<<"S", "e", "c", "r", "e", "t">>)>>,
              <<<<"m", "e", "t", "a", "d", "a", "t", "a">>, MetadataOf(h, opt)>>,
              <<<<"t", "y", "p", "e">>, Coalesce(Prop(opt, <<"t", "y", "p", "e">>), Str(<<"O", "p", "a", "q", "u", "e">>))>>,
              <<<<"d", "a", "t", "a">>, Prop(opt, <<"d", "a", "t", "a">>)>>,
              <<<<"s", "t", "r", "i", "n", "g", "D", "a", "t", "a">>, Prop(opt, <<"s", "t", "r", "i", "n", "g", "D", "a", "t", "a">>)>> >>))

setSecretData(h, secret, key, value) ==
  Store(h, Obj(With(Spread(h, secret), <<"s", "t", "r", "i", "n", "g", "D", "a", "t", "a">>,
                 Obj(With(Spread(h, Field(h, secret, <<"s", "t", "r", "i", "n", "g", "D", "a", "t", "a">>)), key, value)))))

\* --------------------------------------------------------------- ingress

\* the rule literal of createIngress and addIngressRule
IngressRuleOf(host, serviceName, servicePort, path, pathType) ==
  Obj(<< <<<<"h", "o", "s", "t">>, host>>,
         <<<<"h", "t", "t", "p">>,
           Obj(<< <<<<"p", "a", "t", "h", "s">>,
                    Arr(<< Obj(<< <<<<"p", "a", "t", "h">>, path>>,
                                  <<<<"p", "a", "t", "h", "T", "y", "p", "e">>, pathType>>,
                                  <<<<"b", "a", "c", "k", "e", "n", "d">>,
                                    Obj(<< <<<<"s", "e", "r", "v", "i", "c", "e">>,
                                             Obj(<< <<<<"n", "a", "m", "e">>, serviceName>>,
                                                    <<<<"p", "o", "r", "t">>,
                                                      Obj(<< <<<<"n", "u", "m", "b", "e", "r">>, servicePort>> >>)>>
                                                 >>)>> >>)>> >>) >>)>> >>)>> >>)

createIngress(h, options) ==
  LET opt == Cell(h, options).props
      rule == IngressRuleOf(Prop(opt, <<"h", "o", "s", "t">>), Prop(opt, <<"s", "e", "r", "v", "i", "c", "e", "N", "a", "m", "e">>),
                            Prop(opt, <<"s", "e", "r", "v", "i", "c", "e", "P", "o", "r", "t">>),
                            Coalesce(Prop(opt, <<"p", "a", "t", "h">>), Str(<<"/">>)),
                            Coalesce(Prop(opt, <<"p", "a", "t", "h", "T", "y", "p", "e">>), Str(<<"P", "r", "e", "f", "i", "x">>)))
      tls == IF Truthy(Prop(opt, <<"t", "l", "s">>))
             THEN Arr(<< Obj(<< <<<<"h", "o", "s", "t", "s">>, Arr(<<Prop(opt, <<"h", "o", "s", "t">>)>>)>>,
                                <<<<"s", "e", "c", "r", "e", "t", "N", "a", "m", "e">>,
                                  Coalesce(Prop(opt, <<"t", "l", "s", "S", "e", "c", "r", "e", "t", "N", "a", "m", "e">>),
                                           Str(Prop(opt, <<"n", "a", "m", "e">>).s \o <<"-", "t", "l", "s">>))>> >>) >>)
             ELSE Undefined
  IN Store(h,
       Obj(<< <<<<"a", "p", "i", "V", "e", "r", "s", "i", "o", "n">>, Str(<<"n", "e", "t", "w", "o", "r", "k", "i", "n", "g", ".", "k", "8", "s", ".", "i", "o", "/", "v", "1">>)>>,
              <<<<"k", "i", "n", "d">>, Str(<<"I", "n", "g", "r", "e", "s", "s">>)>>,
              <<<<"m", "e", "t", "a", "d", "a", "t", "a">>, MetadataOf(h, opt)>>,
              <<<<"s", "p", "e", "c">>,
                Obj(<< <<<<"i", "n", "g", "r", "e", "s", "s", "C", "l", "a", "s", "s", "N", "a", "m", "e">>, Prop(opt, <<"i", "n", "g", "r", "e", "s", "s", "C", "l", "a", "s", "s", "N", "a", "m", "e">>)>>,
                       <<<<"r", "u", "l", "e", "s">>, Arr(<<rule>>)>>,
                       <<<<"t", "l", "s">>, tls>> >>)>> >>))

addIngressRule(h, ingress, host, serviceName, servicePort, path) ==
  LET spec == Field(h, ingress, <<"s", "p", "e", "c">>)
      rule == IngressRuleOf(host, serviceName, servicePort,
                            IF path.t = "undefined" THEN Str(<<"/">>) ELSE path,
                            Str(<<"P", "r", "e", "f", "i", "x">>))
  IN Store(h, Obj(With(Spread(h, ingress), <<"s", "p", "e", "c">>,
                    Obj(With(Spread(h, spec), <<"r", "u", "l", "e", "s">>,
                          Arr(Append(SpreadItems(h, Field(h, spec, <<"r", "u", "l", "e", "s">>)), rule)))))))

addIngressTLS(h, ingress, hosts, secretName) ==
  LET spec == Field(h, ingress, <<"s", "p", "e", "c">>)
      existing == SpreadItems(h, Field(h, spec, <<"t", "l", "s">>))
  IN Store(h, Obj(With(Spread(h, ingress), <<"s", "p", "e", "c">>,
                    Obj(With(Spread(h, spec), <<"t", "l", "s">>,
                          Arr(Append(existing,
                                     Obj(<< <<<<"h", "o", "s", "t", "s">>, hosts>>,
                                            <<<<"s", "e", "c", "r", "e", "t", "N", "a", "m", "e">>, secretName>> >>))))))))

\* ----------------------------------------------------------- helm chart

createChart(h, options) ==
  LET opt == Cell(h, options).props
  IN Store(h,
       Obj(<< <<<<"a", "p", "i", "V", "e", "r", "s", "i", "o", "n">>, Str(<<"v", "2">>)>>,
              <<<<"n", "a", "m", "e">>, Prop(opt, <<"n", "a", "m", "e">>)>>,
              <<<<"v", "e", "r", "s", "i", "o", "n">>, Coalesce(Prop(opt, <<"v", "e", "r", "s", "i", "o", "n">>), Str(<<"0", ".", "1", ".", "0">>))>>,
              <<<<"a", "p", "p", "V", "e", "r", "s", "i", "o", "n">>, Coalesce(Prop(opt, <<"a", "p", "p", "V", "e", "r", "s", "i", "o", "n">>), Str(<<"1", ".", "0", ".", "0">>))>>,
              <<<<"d", "e", "s", "c", "r", "i", "p", "t", "i", "o", "n">>, Prop(opt, <<"d", "e", "s", "c", "r", "i", "p", "t", "i", "o", "n">>)>>,
              <<<<"t", "y", "p", "e">>, Coalesce(Prop(opt, <<"t", "y", "p", "e">>), Str(<<"a", "p", "p", "l", "i", "c", "a", "t", "i", "o", "n">>))>>,
              <<<<"k", "e", "y", "w", "o", "r", "d", "s">>, Prop(opt, <<"k", "e", "y", "w", "o", "r", "d", "s">>)>>,
              <<<<"h", "o", "m", "e">>, Prop(opt, <<"h", "o", "m", "e">>)>>,
              <<<<"s", "o", "u", "r", "c", "e", "s">>, Prop(opt, <<"s", "o", "u", "r", "c", "e", "s">>)>>,
              <<<<"m", "a", "i", "n", "t", "a", "i", "n", "e", "r", "s">>, Prop(opt, <<"m", "a", "i", "n", "t", "a", "i", "n", "e", "r", "s">>)>>,
              <<<<"d", "e", "p", "e", "n", "d", "e", "n", "c", "i", "e", "s">>, Prop(opt, <<"d", "e", "p", "e", "n", "d", "e", "n", "c", "i", "e", "s">>)>> >>))

addDependency(h, chart, name, version, repository, condition) ==
  Store(h, Obj(With(Spread(h, chart), <<"d", "e", "p", "e", "n", "d", "e", "n", "c", "i", "e", "s">>,
                 Arr(Append(SpreadItems(h, Field(h, chart, <<"d", "e", "p", "e", "n", "d", "e", "n", "c", "i", "e", "s">>)),
                            Obj(<< <<<<"n", "a", "m", "e">>, name>>,
                                   <<<<"v", "e", "r", "s", "i", "o", "n">>, version>>,
                                   <<<<"r", "e", "p", "o", "s", "i", "t", "o", "r", "y">>, repository>>,
                                   <<<<"c", "o", "n", "d", "i", "t", "i", "o", "n">>, condition>> >>))))))

\* ---------------------------------------------------------- helm values

createValues(h, options) ==
  LET opt == Cell(h, options).props
      image == Prop(opt, <<"i", "m", "a", "g", "e">>)
      hosts == IF Truthy(Prop(opt, <<"i", "n", "g", "r", "e", "s", "s", "H", "o", "s", "t">>))
               THEN Arr(<< Obj(<< <<<<"h", "o", "s", "t">>, Prop(opt, <<"i", "n", "g", "r", "e", "s", "s", "H", "o", "s", "t">>)>>,
                                  <<<<"p", "a", "t", "h", "s">>,
                                    Arr(<< Obj(<< <<<<"p", "a", "t", "h">>, Str(<<"/">>)>>,
                                                  <<<<"p", "a", "t", "h", "T", "y", "p", "e">>, Str(<<"P", "r", "e", "f", "i", "x">>)>> >>) >>)>>
                               >>) >>)
               ELSE Arr(<<>>)
  IN Store(h,
       Obj(<< <<<<"r", "e", "p", "l", "i", "c", "a", "C", "o", "u", "n", "t">>, Coalesce(Prop(opt, <<"r", "e", "p", "l", "i", "c", "a", "C", "o", "u", "n", "t">>), Num(1))>>,
              <<<<"i", "m", "a", "g", "e">>,
                Obj(<< <<<<"r", "e", "p", "o", "s", "i", "t", "o", "r", "y">>, Field(h, image, <<"r", "e", "p", "o", "s", "i", "t", "o", "r", "y">>)>>,
                       <<<<"t", "a", "g">>, Coalesce(Field(h, image, <<"t", "a", "g">>), Str(<<"l", "a", "t", "e", "s", "t">>))>>,
                       <<<<"p", "u", "l", "l", "P", "o", "l", "i", "c", "y">>,
                         Coalesce(Field(h, image, <<"p", "u", "l", "l", "P", "o", "l", "i", "c", "y">>), Str(<<"I", "f", "N", "o", "t", "P", "r", "e", "s", "e", "n", "t">>))>> >>)>>,
              <<<<"s", "e", "r", "v", "i", "c", "e">>,
                Obj(<< <<<<"t", "y", "p", "e">>, Coalesce(Prop(opt, <<"s", "e", "r", "v", "i", "c", "e", "T", "y", "p", "e">>), Str(<<"C", "l", "u", "s", "t", "e", "r", "I", "P">>))>>,
                       <<<<"p", "o", "r", "t">>, Coalesce(Prop(opt, <<"s", "e", "r", "v", "i", "c", "e", "P", "o", "r", "t">>), Num(80))>> >>)>>,
              <<<<"i", "n", "g", "r", "e", "s", "s">>,
                Obj(<< <<<<"e", "n", "a", "b", "l", "e", "d">>, Coalesce(Prop(opt, <<"i", "n", "g", "r", "e", "s", "s", "E", "n", "a", "b", "l", "e", "d">>), Bool(FALSE))>>,
                       <<<<"c", "l", "a", "s", "s", "N", "a", "m", "e">>, Prop(opt, <<"i", "n", "g", "r", "e", "s", "s", "C", "l", "a", "s", "s", "N", "a", "m", "e">>)>>,
                       <<<<"h", "o", "s", "t", "s">>, hosts>>,
                       <<<<"t", "l", "s">>, Arr(<<>>)>> >>)>>,
              <<<<"r", "e", "s", "o", "u", "r", "c", "e", "s">>, Prop(opt, <<"r", "e", "s", "o", "u", "r", "c", "e", "s">>)>>,
              <<<<"a", "u", "t", "o", "s", "c", "a", "l", "i", "n", "g">>,
                Obj(<< <<<<"e", "n", "a", "b", "l", "e", "d">>,
                         Coalesce(Prop(opt, <<"a", "u", "t", "o", "s", "c", "a", "l", "i", "n", "g", "E", "n", "a", "b", "l", "e", "d">>), Bool(FALSE))>>,
                       <<<<"m", "i", "n", "R", "e", "p", "l", "i", "c", "a", "s">>,
                         Coalesce(Prop(opt, <<"a", "u", "t", "o", "s", "c", "a", "l", "i", "n", "g", "M", "i", "n", "R", "e", "p", "l", "i", "c", "a", "s">>), Num(1))>>,
                       <<<<"m", "a", "x", "R", "e", "p", "l", "i", "c", "a", "s">>,
                         Coalesce(Prop(opt, <<"a", "u", "t", "o", "s", "c", "a", "l", "i", "n", "g", "M", "a", "x", "R", "e", "p", "l", "i", "c", "a", "s">>), Num(10))>>,
                       <<<<"t", "a", "r", "g", "e", "t", "C", "P", "U", "U", "t", "i", "l", "i", "z", "a", "t", "i", "o", "n", "P", "e", "r", "c", "e", "n", "t", "a", "g", "e">>, Prop(opt, <<"a", "u", "t", "o", "s", "c", "a", "l", "i", "n", "g", "C", "P", "U">>)>>,
                       <<<<"t", "a", "r", "g", "e", "t", "M", "e", "m", "o", "r", "y", "U", "t", "i", "l", "i", "z", "a", "t", "i", "o", "n", "P", "e", "r", "c", "e", "n", "t", "a", "g", "e">>,
                         Prop(opt, <<"a", "u", "t", "o", "s", "c", "a", "l", "i", "n", "g", "M", "e", "m", "o", "r", "y">>)>> >>)>>,
              <<<<"n", "o", "d", "e", "S", "e", "l", "e", "c", "t", "o", "r">>, Prop(opt, <<"n", "o", "d", "e", "S", "e", "l", "e", "c", "t", "o", "r">>)>> >>))

\* setAutoscaling; options is undefined or a reference to the options object
setAutoscaling(h, values, enabled, options) ==
  LET autoscaling == Field(h, values, <<"a", "u", "t", "o", "s", "c", "a", "l", "i", "n", "g">>)
  IN Store(h, Obj(With(Spread(h, values), <<"a", "u", "t", "o", "s", "c", "a", "l", "i", "n", "g">>,
       Obj(<< <<<<"e", "n", "a", "b", "l", "e", "d">>, enabled>>,
              <<<<"m", "i", "n", "R", "e", "p", "l", "i", "c", "a", "s">>,
                Coalesce(Coalesce(OptField(h, options, <<"m", "i", "n">>),
                                  OptField(h, autoscaling, <<"m", "i", "n", "R", "e", "p", "l", "i", "c", "a", "s">>)), Num(1))>>,
              <<<<"m", "a", "x", "R", "e", "p", "l", "i", "c", "a", "s">>,
                Coalesce(Coalesce(OptField(h, options, <<"m", "a", "x">>),
                                  OptField(h, autoscaling, <<"m", "a", "x", "R", "e", "p", "l", "i", "c", "a", "s">>)), Num(10))>>,
              <<<<"t", "a", "r", "g", "e", "t", "C", "P", "U", "U", "t", "i", "l", "i", "z", "a", "t", "i", "o", "n", "P", "e", "r", "c", "e", "n", "t", "a", "g", "e">>,
                Coalesce(OptField(h, options, <<"c", "p", "u">>),
                         OptField(h, autoscaling, <<"t", "a", "r", "g", "e", "t", "C", "P", "U", "U", "t", "i", "l", "i", "z", "a", "t", "i", "o", "n", "P", "e", "r", "c", "e", "n", "t", "a", "g", "e">>))>>,
              <<<<"t", "a", "r", "g", "e", "t", "M", "e", "m", "o", "r", "y", "U", "t", "i", "l", "i", "z", "a", "t", "i", "o", "n", "P", "e", "r", "c", "e", "n", "t", "a", "g", "e">>,
                Coalesce(OptField(h, options, <<"m", "e", "m", "o", "r", "y">>),
                         OptField(h, autoscaling, <<"t", "a", "r", "g", "e", "t", "M", "e", "m", "o", "r", "y", "U", "t", "i", "l", "i", "z", "a", "t", "i", "o", "n", "P", "e", "r", "c", "e", "n", "t", "a", "g", "e">>))>>
           >>))))

mergeValues(h, base, overrides) ==
  LET merged(key) ==
        Obj(Merge(Spread(h, Field(h, base, key)), Spread(h, Field(h, overrides, key))))
  IN Store(h,
       Obj(With(With(With(With(Merge(Spread(h, base), Spread(h, overrides)),
                               <<"i", "m", "a", "g", "e">>, merged(<<"i", "m", "a", "g", "e">>)),
                          <<"s", "e", "r", "v", "i", "c", "e">>, merged(<<"s", "e", "r", "v", "i", "c", "e">>)),
                     <<"i", "n", "g", "r", "e", "s", "s">>, merged(<<"i", "n", "g", "r", "e", "s", "s">>)),
                <<"a", "u", "t", "o", "s", "c", "a", "l", "i", "n", "g">>,
                IF Truthy(Field(h, base, <<"a", "u", "t", "o", "s", "c", "a", "l", "i", "n", "g">>))
                     \/ Truthy(Field(h, overrides, <<"a", "u", "t", "o", "s", "c", "a", "l", "i", "n", "g">>))
                THEN merged(<<"a", "u", "t", "o", "s", "c", "a", "l", "i", "n", "g">>)
                ELSE Undefined)))

\* ------------------------------------------------------- calls of builders

\* Largest number of modifier calls made on what one create call returned.
MaxCalls == 3

\* input is the list of the resources the callers hold: ref the reference
\* returned, kind the resource type, was the value the reference stood for when
\* it was returned, from the place in the list of the resource the call was
\* given (0 for a create call), call and args the call.  output is the heap
\* and the value of the last call.

InitBuilders ==
  /\ input = <<>>
  /\ output = [heap |-> <<>>, result |-> Undefined]
  /\ op = "none"

\* the state after a call that returned r
Returned(call, kind, r, from, args) ==
  /\ output' = [heap |-> r.heap, result |-> r.value]
  /\ input' = Append(input, [ref |-> r.value, kind |-> kind, was |-> Deep(r.heap, r.value),
                             from |-> from, call |-> call, args |-> args])
  /\ op' = call

\* the resources of a kind a modifier can still be called on
Held(kind) == {i \in 1..Len(input) : input[i].kind = kind /\ Len(input) <= MaxCalls}

\* the options the create call of a kind is given
OptionsOf(kind) ==
  CASE kind = "Deployment" ->
        { Obj(<< <<<<"n", "a", "m", "e">>, Str(<<"w", "e", "b">>)>>, <<<<"i", "m", "a", "g", "e">>, Str(<<"n", "g", "i", "n", "x">>)>> >>),
          Obj(<< <<<<"n", "a", "m", "e">>, Str(<<"w", "e", "b">>)>>, <<<<"i", "m", "a", "g", "e">>, Str(<<"n", "g", "i", "n", "x">>)>>,
                 <<<<"r", "e", "p", "l", "i", "c", "a", "s">>, Num(3)>>, <<<<"p", "o", "r", "t">>, Num(3000)>>,
                 <<<<"n", "a", "m", "e", "s", "p", "a", "c", "e">>, Str(<<"p", "r", "o", "d", "u", "c", "t", "i", "o", "n">>)>>,
                 <<<<"l", "a", "b", "e", "l", "s">>, Obj(<< <<<<"v", "e", "r", "s", "i", "o", "n">>, Str(<<"v", "1">>)>> >>)>> >>),
          Obj(<< <<<<"n", "a", "m", "e">>, Str(<<"w", "e", "b">>)>>, <<<<"i", "m", "a", "g", "e">>, Str(<<"n", "g", "i", "n", "x">>)>>,
                 <<<<"l", "a", "b", "e", "l", "s">>, Obj(<< <<<<"a", "p", "p">>, Str(<<"o", "t", "h", "e", "r">>)>> >>)>>,
                 <<<<"s", "t", "r", "a", "t", "e", "g", "y">>, Str(<<"R", "e", "c", "r", "e", "a", "t", "e">>)>> >>) }
    [] kind = "HPA" ->
        { Obj(<< <<<<"n", "a", "m", "e">>, Str(<<"h", "p", "a">>)>>, <<<<"t", "a", "r", "g", "e", "t", "D", "e", "p", "l", "o", "y", "m", "e", "n", "t">>, Str(<<"w", "e", "b">>)>>,
                 <<<<"m", "a", "x", "R", "e", "p", "l", "i", "c", "a", "s">>, Num(5)>> >>),
          Obj(<< <<<<"n", "a", "m", "e">>, Str(<<"h", "p", "a">>)>>, <<<<"t", "a", "r", "g", "e", "t", "D", "e", "p", "l", "o", "y", "m", "e", "n", "t">>, Str(<<"a", "p", "i">>)>>,
                 <<<<"m", "a", "x", "R", "e", "p", "l", "i", "c", "a", "s">>, Num(20)>>, <<<<"c", "p", "u", "U", "t", "i", "l", "i", "z", "a", "t", "i", "o", "n">>, Num(70)>>,
                 <<<<"m", "e", "m", "o", "r", "y", "U", "t", "i", "l", "i", "z", "a", "t", "i", "o", "n">>, Num(80)>> >>) }
    [] kind = "Service" ->
        { Obj(<< <<<<"n", "a", "m", "e">>, Str(<<"w", "e", "b">>)>>, <<<<"p", "o", "r", "t">>, Num(80)>> >>),
          Obj(<< <<<<"n", "a", "m", "e">>, Str(<<"w", "e", "b">>)>>, <<<<"p", "o", "r", "t">>, Num(80)>>,
                 <<<<"s", "e", "l", "e", "c", "t", "o", "r">>, Obj(<< <<<<"t", "i", "e", "r">>, Str(<<"f", "r", "o", "n", "t">>)>> >>)>> >>) }
    [] kind = "ConfigMap" ->
        { Obj(<< <<<<"n", "a", "m", "e">>, Str(<<"c", "f", "g">>)>> >>),
          Obj(<< <<<<"n", "a", "m", "e">>, Str(<<"c", "f", "g">>)>>,
                 <<<<"d", "a", "t", "a">>, Obj(<< <<<<"k">>, Str(<<"v">>)>> >>)>> >>) }
    [] kind = "Secret" ->
        { Obj(<< <<<<"n", "a", "m", "e">>, Str(<<"s", "e", "c">>)>> >>),
          Obj(<< <<<<"n", "a", "m", "e">>, Str(<<"s", "e", "c">>)>>,
                 <<<<"s", "t", "r", "i", "n", "g", "D", "a", "t", "a">>, Obj(<< <<<<"k">>, Str(<<"v">>)>> >>)>> >>) }
    [] kind = "Ingress" ->
        { Obj(<< <<<<"n", "a", "m", "e">>, Str(<<"i", "n", "g">>)>>, <<<<"h", "o", "s", "t">>, Str(<<"a", ".", "e", "x", "a", "m", "p", "l", "e">>)>>,
                 <<<<"s", "e", "r", "v", "i", "c", "e", "N", "a", "m", "e">>, Str(<<"w", "e", "b">>)>>, <<<<"s", "e", "r", "v", "i", "c", "e", "P", "o", "r", "t">>, Num(80)>> >>),
          Obj(<< <<<<"n", "a", "m", "e">>, Str(<<"i", "n", "g">>)>>, <<<<"h", "o", "s", "t">>, Str(<<"a", ".", "e", "x", "a", "m", "p", "l", "e">>)>>,
                 <<<<"s", "e", "r", "v", "i", "c", "e", "N", "a", "m", "e">>, Str(<<"w", "e", "b">>)>>, <<<<"s", "e", "r", "v", "i", "c", "e", "P", "o", "r", "t">>, Num(80)>>,
                 <<<<"t", "l", "s">>, Bool(TRUE)>> >>) }
    [] kind = "HelmChart" ->
        { Obj(<< <<<<"n", "a", "m", "e">>, Str(<<"a", "p", "p">>)>> >>),
          Obj(<< <<<<"n", "a", "m", "e">>, Str(<<"a", "p", "p">>)>>,
                 <<<<"d", "e", "p", "e", "n", "d", "e", "n", "c", "i", "e", "s">>,
                   Arr(<< Obj(<< <<<<"n", "a", "m", "e">>, Str(<<"r", "e", "d", "i", "s">>)>>,
                                 <<<<"v", "e", "r", "s", "i", "o", "n">>, Str(<<"1", ".", "0", ".", "0">>)>> >>) >>)>> >>) }
    [] kind = "HelmValues" ->
        { Obj(<< <<<<"i", "m", "a", "g", "e">>, Obj(<< <<<<"r", "e", "p", "o", "s", "i", "t", "o", "r", "y">>, Str(<<"n", "g", "i", "n", "x">>)>> >>)>> >>),
          Obj(<< <<<<"i", "m", "a", "g", "e">>, Obj(<< <<<<"r", "e", "p", "o", "s", "i", "t", "o", "r", "y">>, Str(<<"n", "g", "i", "n", "x">>)>> >>)>>,
                 <<<<"i", "n", "g", "r", "e", "s", "s", "H", "o", "s", "t">>, Str(<<"a", ".", "e", "x", "a", "m", "p", "l", "e">>)>>,
                 <<<<"a", "u", "t", "o", "s", "c", "a", "l", "i", "n", "g", "E", "n", "a", "b", "l", "e", "d">>, Bool(TRUE)>>,
                 <<<<"a", "u", "t", "o", "s", "c", "a", "l", "i", "n", "g", "C", "P", "U">>, Num(70)>> >>) }

\* one disjunct for each create call and each modifier call.  A create call is
\* given the caller's options literal; a modifier is called on a resource the
\* caller holds, and an argument that is an object or an array is the
\* caller's literal.
NextBuilders ==
  \/ /\ input = <<>>
     /\ \E options \in OptionsOf("Deployment") :
          LET o == Store(output.heap, options)
          IN Returned("createDeployment", "Deployment", createDeployment(o.heap, o.value), 0, <<options>>)
  \/ /\ input = <<>>
     /\ \E options \in OptionsOf("HPA") :
          LET o == Store(output.heap, options)
          IN Returned("createHPA", "HPA", createHPA(o.heap, o.value), 0, <<options>>)
  \/ /\ input = <<>>
     /\ \E options \in OptionsOf("Service") :
          LET o == Store(output.heap, options)
          IN Returned("createService", "Service", createService(o.heap, o.value), 0, <<options>>)
  \/ /\ input = <<>>
     /\ \E options \in OptionsOf("ConfigMap") :
          LET o == Store(output.heap, options)
          IN Returned("createConfigMap", "ConfigMap", createConfigMap(o.heap, o.value), 0, <<options>>)
  \/ /\ input = <<>>
     /\ \E options \in OptionsOf("Secret") :
          LET o == Store(output.heap, options)
          IN Returned("createSecret", "Secret", createSecret(o.heap, o.value), 0, <<options>>)
  \/ /\ input = <<>>
     /\ \E options \in OptionsOf("Ingress") :
          LET o == Store(output.heap, options)
          IN Returned("createIngress", "Ingress", createIngress(o.heap, o.value), 0, <<options>>)
  \/ /\ input = <<>>
     /\ \E options \in OptionsOf("HelmChart") :
          LET o == Store(output.heap, options)
          IN Returned("createChart", "HelmChart", createChart(o.heap, o.value), 0, <<options>>)
  \/ /\ input = <<>>
     /\ \E options \in OptionsOf("HelmValues") :
          LET o == Store(output.heap, options)
          IN Returned("createValues", "HelmValues", createValues(o.heap, o.value), 0, <<options>>)
  \/ \E i \in Held("Deployment"), replicas \in {Num(0), Num(5)} :
       Returned("setReplicas", "Deployment",
                setReplicas(output.heap, input[i].ref, replicas), i, <<replicas>>)
  \/ \E i \in Held("Deployment") :
       LET container == Obj(<< <<<<"n", "a", "m", "e">>, Str(<<"s", "i", "d", "e", "c", "a", "r">>)>>, <<<<"i", "m", "a", "g", "e">>, Str(<<"e", "n", "v", "o", "y">>)>> >>)
           a == Store(output.heap, container)
       IN Returned("addContainer", "Deployment",
                   addContainer(a.heap, input[i].ref, a.value), i, <<container>>)
  \/ \E i \in Held("Deployment") :
       LET resources == Obj(<< <<<<"l", "i", "m", "i", "t", "s">>, Obj(<< <<<<"c", "p", "u">>, Str(<<"5", "0", "0", "m">>)>> >>)>> >>)
           a == Store(output.heap, resources)
       IN Returned("setResources", "Deployment",
                   setResources(a.heap, input[i].ref, a.value), i, <<resources>>)
  \/ \E i \in Held("Deployment"),
        strategy \in {Str(<<"R", "e", "c", "r", "e", "a", "t", "e">>), Str(<<"R", "o", "l", "l", "i", "n", "g", "U", "p", "d", "a", "t", "e">>)},
        options \in {Undefined, Obj(<< <<<<"m", "a", "x", "S", "u", "r", "g", "e">>, Num(1)>> >>)} :
       LET a == Store(output.heap, options)
       IN Returned("setStrategy", "Deployment",
                   setStrategy(a.heap, input[i].ref, strategy, a.value), i,
                   <<strategy, options>>)
  \/ \E i \in Held("Service") :
       LET port == Obj(<< <<<<"p", "o", "r", "t">>, Num(443)>> >>)
           a == Store(output.heap, port)
       IN Returned("addServicePort", "Service",
                   addServicePort(a.heap, input[i].ref, a.value), i, <<port>>)
  \/ \E i \in Held("Service"), type \in {Str(<<"N", "o", "d", "e", "P", "o", "r", "t">>), Str(<<"L", "o", "a", "d", "B", "a", "l", "a", "n", "c", "e", "r">>)} :
       Returned("setServiceType", "Service",
                setServiceType(output.heap, input[i].ref, type), i, <<type>>)
  \/ \E i \in Held("ConfigMap"), key \in {<<"k">>, <<"j">>} :
       Returned("setConfigData", "ConfigMap",
                setConfigData(output.heap, input[i].ref, key, Str(<<"w">>)), i,
                <<Str(key), Str(<<"w">>)>>)
  \/ \E i \in Held("ConfigMap"), key \in {<<"k">>, <<"j">>} :
       Returned("removeConfigData", "ConfigMap",
                removeConfigData(output.heap, input[i].ref, key), i, <<Str(key)>>)
  \/ \E i \in Held("Secret"), key \in {<<"k">>, <<"j">>} :
       Returned("setSecretData", "Secret",
                setSecretData(output.heap, input[i].ref, key, Str(<<"w">>)), i,
                <<Str(key), Str(<<"w">>)>>)
  \/ \E i \in Held("Ingress"), path \in {Undefined, Str(<<"/", "a", "p", "i">>)} :
       Returned("addIngressRule", "Ingress",
                addIngressRule(output.heap, input[i].ref, Str(<<"b", ".", "e", "x", "a", "m", "p", "l", "e">>), Str(<<"a", "p", "i">>),
                               Num(8080), path),
                i, <<Str(<<"b", ".", "e", "x", "a", "m", "p", "l", "e">>), Str(<<"a", "p", "i">>), Num(8080), path>>)
  \/ \E i \in Held("Ingress") :
       LET hosts == Arr(<<Str(<<"b", ".", "e", "x", "a", "m", "p", "l", "e">>)>>)
           a == Store(output.heap, hosts)
       IN Returned("addIngressTLS", "Ingress",
                   addIngressTLS(a.heap, input[i].ref, a.value, Str(<<"b", "-", "t", "l", "s">>)), i,
                   <<hosts, Str(<<"b", "-", "t", "l", "s">>)>>)
  \/ \E i \in Held("HPA"), percentage \in {Num(60), Num(90)} :
       Returned("setCPUTarget", "HPA",
                setCPUTarget(output.heap, input[i].ref, percentage), i, <<percentage>>)
  \/ \E i \in Held("HPA"), percentage \in {Num(75), Num(90)} :
       Returned("setMemoryTarget", "HPA",
                setMemoryTarget(output.heap, input[i].ref, percentage), i, <<percentage>>)
  \/ \E i \in Held("HPA") :
       Returned("setScaleRange", "HPA",
                setScaleRange(output.heap, input[i].ref, Num(2), Num(15)), i,
                <<Num(2), Num(15)>>)
  \/ \E i \in Held("HelmChart"), repository \in {Undefined, Str(<<"h", "t", "t", "p", "s", ":", "/", "/", "c", "h", "a", "r", "t", "s", ".", "e", "x", "a", "m", "p", "l", "e">>)} :
       Returned("addDependency", "HelmChart",
                addDependency(output.heap, input[i].ref, Str(<<"p", "o", "s", "t", "g", "r", "e", "s", "q", "l">>), Str(<<"1", "2", ".", "0", ".", "0">>),
                              repository, Undefined),
                i, <<Str(<<"p", "o", "s", "t", "g", "r", "e", "s", "q", "l">>), Str(<<"1", "2", ".", "0", ".", "0">>), repository, Undefined>>)
  \/ \E i \in Held("HelmValues"),
        enabled \in {Bool(TRUE), Bool(FALSE)},
        options \in {Undefined, Obj(<< <<<<"m", "i", "n">>, Num(2)>>, <<<<"c", "p", "u">>, Num(60)>> >>)} :
       LET a == Store(output.heap, options)
       IN Returned("setAutoscaling", "HelmValues",
                   setAutoscaling(a.heap, input[i].ref, enabled, a.value), i,
                   <<enabled, options>>)
  \/ \E i \in Held("HelmValues") :
       LET overrides == Obj(<< <<<<"r", "e", "p", "l", "i", "c", "a", "C", "o", "u", "n", "t">>, Num(3)>>,
                               <<<<"i", "m", "a", "g", "e">>, Obj(<< <<<<"t", "a", "g">>, Str(<<"v", "2">>)>> >>)>> >>)
           a == Store(output.heap, overrides)
       IN Returned("mergeValues", "HelmValues",
                   mergeValues(a.heap, input[i].ref, a.value), i, <<overrides>>)

SpecBuilders == InitBuilders /\ [][NextBuilders]_vars

\* ---------------------------------------------------- builder claim helpers

\* the value a held resource stands for now
Now(i) == Deep(output.heap, input[i].ref)

\* value.a.b...: the property at the end of a path of keys, undefined when a
\* step is not an object
RECURSIVE At(_, _)
At(value, keys) ==
  IF Len(keys) = 0 THEN value
  ELSE IF value.t = "object" THEN At(Prop(value.props, keys[1]), Tail(keys))
  ELSE Undefined

\* C17: after any sequence of create and modifier calls, every resource a call
\* returned (and so every resource that was passed to a later modifier) still
\* stands for the value it had when it was returned, nested maps and arrays
\* included, and every call returned an object of its own.
C17_ModifiersLeaveInputUnchanged ==
  /\ \A i \in 1..Len(input) : Now(i) = input[i].was
  /\ \A i, j \in 1..Len(input) : i # j => input[i].ref # input[j].ref

\* removeConfigData has been called on the config map createConfigMap returned
\* with the key k, after other calls; the result is without the key and the
\* config map passed in still has it
C17_Witness ==
  /\ Len(input) >= 3
  /\ op = "removeConfigData"
  /\ input[Len(input)].from = 1
  /\ At(Now(1), <<<<"d", "a", "t", "a">>, <<"k">>>>) = Str(<<"v">>)
  /\ At(Now(Len(input)), <<<<"d", "a", "t", "a">>>>).t = "object"
  /\ At(Now(Len(input)), <<<<"d", "a", "t", "a">>, <<"k">>>>) = Undefined

\* C18: the deployment createDeployment returns has selector.matchLabels.app
\* equal to the name of the options, its pod template's labels have the same
\* app, and validateDeployment reports no selector error for it.
C18_SelectorMatchesTemplate ==
  \A i \in 1..Len(input) :
    input[i].call = "createDeployment" =>
      LET deployment == input[i].was
          name == At(input[i].args[1], <<<<"n", "a", "m", "e">>>>)
      IN /\ At(deployment, <<<<"s", "p", "e", "c">>, <<"s", "e", "l", "e", "c", "t", "o", "r">>, <<"m", "a", "t", "c", "h", "L", "a", "b", "e", "l", "s">>, <<"a", "p", "p">>>>) = name
         /\ At(deployment, <<<<"s", "p", "e", "c">>, <<"t", "e", "m", "p", "l", "a", "t", "e">>, <<"m", "e", "t", "a", "d", "a", "t", "a">>, <<"l", "a", "b", "e", "l", "s">>, <<"a", "p", "p">>>>) = name
         /\ \A e \in 1..Len(validateDeploymentErrors(deployment)) :
              ~IsPrefix(<<"S", "e", "l", "e", "c", "t", "o", "r", " ", "l", "a", "b", "e", "l">>, validateDeploymentErrors(deployment)[e])

RECURSIVE LastTarget(_, _, _)
\* the utilization the most recent call gave for a resource metric on the way
\* to the held HPA i: the percentage of the set call (setCall) or the option
\* of createHPA; undefined when no call gave one
LastTarget(i, setCall, option) ==
  IF input[i].call = setCall THEN input[i].args[1]
  ELSE IF input[i].call = "createHPA" THEN At(input[i].args[1], <<option>>)
  ELSE LastTarget(input[i].from, setCall, option)

\* the Resource metrics of a name among the metrics of an HPA value
ResourceMetricsOf(hpa, name) ==
  LET metrics == At(hpa, <<<<"s", "p", "e", "c">>, <<"m", "e", "t", "r", "i", "c", "s">>>>)
      items == IF metrics.t = "array" THEN metrics.items ELSE <<>>
  IN SelectSeq(items, LAMBDA m : /\ At(m, <<<<"t", "y", "p", "e">>>>) = Str(<<"R", "e", "s", "o", "u", "r", "c", "e">>)
                                 /\ At(m, <<<<"r", "e", "s", "o", "u", "r", "c", "e">>, <<"n", "a", "m", "e">>>>) = Str(name))

MetricCount(hpa) ==
  LET metrics == At(hpa, <<<<"s", "p", "e", "c">>, <<"m", "e", "t", "r", "i", "c", "s">>>>)
  IN IF metrics.t = "array" THEN Len(metrics.items) ELSE 0

\* the metrics of name are as the calls on the way to the held HPA i ask
TargetKept(i, name, setCall, option) ==
  LET found == ResourceMetricsOf(input[i].was, name)
      target == LastTarget(i, setCall, option)
  IN IF target.t = "undefined" THEN Len(found) = 0
     ELSE /\ Len(found) = 1
          /\ At(found[1], <<<<"r", "e", "s", "o", "u", "r", "c", "e">>, <<"t", "a", "r", "g", "e", "t">>, <<"a", "v", "e", "r", "a", "g", "e", "U", "t", "i", "l", "i", "z", "a", "t", "i", "o", "n">>>>) = target

\* C19: every HPA reached from createHPA by setCPUTarget, setMemoryTarget (and
\* setScaleRange) calls has at most one Resource metric named cpu and at most
\* one named memory, each with the averageUtilization of the most recent call
\* that gave one for that resource, and no metric besides them is lost or
\* added.
C19_OneMetricPerResource ==
  \A i \in 1..Len(input) :
    input[i].kind = "HPA" =>
      /\ TargetKept(i, <<"c", "p", "u">>, "setCPUTarget", <<"c", "p", "u", "U", "t", "i", "l", "i", "z", "a", "t", "i", "o", "n">>)
      /\ TargetKept(i, <<"m", "e", "m", "o", "r", "y">>, "setMemoryTarget", <<"m", "e", "m", "o", "r", "y", "U", "t", "i", "l", "i", "z", "a", "t", "i", "o", "n">>)
      /\ MetricCount(input[i].was)
           = Len(ResourceMetricsOf(input[i].was, <<"c", "p", "u">>))
               + Len(ResourceMetricsOf(input[i].was, <<"m", "e", "m", "o", "r", "y">>))

\* setCPUTarget has been called with 90 on the result of setCPUTarget with 60
\* on an HPA created with cpu 70 and memory 80: the metrics are the memory
\* metric of 80 and one cpu metric of 90
C19_Witness ==
  /\ Len(input) >= 3
  /\ op = "setCPUTarget"
  /\ input[Len(input)].args = <<Num(90)>>
  /\ input[input[Len(input)].from].call = "setCPUTarget"
  /\ input[input[Len(input)].from].args = <<Num(60)>>
  /\ LastTarget(Len(input), "setMemoryTarget", <<"m", "e", "m", "o", "r", "y", "U", "t", "i", "l", "i", "z", "a", "t", "i", "o", "n">>) = Num(80)
  /\ MetricCount(input[Len(input)].was) = 2

\* ------------------------------------------------ template claims, continued

\* the text renderTemplate computes for a recognized placeholder: the
\* replacer's text for a .Values path, the context string or the default for
\* one of the four fixed placeholders
InsertedText(piece, context) ==
  IF piece.kind = "values" THEN ValuesReplacer(context.values, piece.path)
  ELSE OrDefault(FieldOf(context, piece.kind), DefaultOf(piece.kind))

\* the text holds a whole placeholder of one of the five patterns
HoldsPlaceholder(s) == \E k \in 1..Len(s) : PlaceholderAt(s, k)

\* none of the four context strings has a $ pattern to expand
NoDollar(context) ==
  \A kind \in FixedKinds :
    FieldOf(context, kind).t = "string" => ~Includes(FieldOf(context, kind).s, "$")

\* C21: when the text inserted for a placeholder of the template (a .Values
\* value or one of the four context strings) itself holds placeholder text such
\* as `{{ .Chart.Name }}`, that text appears verbatim in the output of
\* renderTemplate.
C21_InsertedTextVerbatim ==
  (Rendered /\ NoDollar(input.context)) =>
    \A i \in 1..Len(input.pieces) :
      (/\ input.pieces[i].kind \in FixedKinds \cup {"values"}
       /\ HoldsPlaceholder(InsertedText(input.pieces[i], input.context)))
        => Occurrences(output, InsertedText(input.pieces[i], input.context)) > 0

\* none of the four context strings has a brace or a $
PlainFixed(context) ==
  \A kind \in FixedKinds :
    FieldOf(context, kind).t = "string"
      => /\ ~Includes(FieldOf(context, kind).s, "$")
         /\ ~Includes(FieldOf(context, kind).s, "{")

RECURSIVE ReachesNull(_, _)
\* the walk along the segments ends at, or passes through, an explicit null
ReachesNull(current, segments) ==
  IF current.t = "null" THEN TRUE
  ELSE IF Len(segments) = 0 THEN FALSE
  ELSE IF current.t = "object" /\ HasKey(current, segments[1])
       THEN ReachesNull(ValueOfKey(current, segments[1]), Tail(segments))
       ELSE FALSE

\* C23: when every placeholder of the template is a .Values placeholder whose
\* path ends at, or passes through, an explicit null, each is replaced by the
\* empty string, and the output has neither the text `null` nor the text
\* `undefined`.
C23_NullValueEmpty ==
  (/\ Rendered
   /\ OnlyPieces({"values"})
   /\ \A i \in 1..Len(input.pieces) :
        ReachesNull(input.context.values, Split(input.pieces[i].path, ".")))
    => /\ output = <<>>
       /\ Occurrences(output, <<"n", "u", "l", "l">>) = 0
       /\ Occurrences(output, <<"u", "n", "d", "e", "f", "i", "n", "e", "d">>) = 0

\* ===================================================== built-in templates

\* deploymentTemplate(): the lines of the template literal
deploymentTemplate ==
  Join(<<
          <<"a", "p", "i", "V", "e", "r", "s", "i", "o", "n", ":", " ", "a", "p", "p", "s", "/", "v", "1">>,
          <<"k", "i", "n", "d", ":", " ", "D", "e", "p", "l", "o", "y", "m", "e", "n", "t">>,
          <<"m", "e", "t", "a", "d", "a", "t", "a", ":">>,
          <<" ", " ", "n", "a", "m", "e", ":", " ", "{", "{", " ", ".", "R", "e", "l", "e", "a", "s", "e", ".", "N", "a", "m", "e", " ", "}", "}", "-", "{", "{", " ", ".", "C", "h", "a", "r", "t", ".", "N", "a", "m", "e", " ", "}", "}">>,
          <<" ", " ", "n", "a", "m", "e", "s", "p", "a", "c", "e", ":", " ", "{", "{", " ", ".", "R", "e", "l", "e", "a", "s", "e", ".", "N", "a", "m", "e", "s", "p", "a", "c", "e", " ", "}", "}">>,
          <<" ", " ", "l", "a", "b", "e", "l", "s", ":">>,
          <<" ", " ", " ", " ", "a", "p", "p", ":", " ", "{", "{", " ", ".", "C", "h", "a", "r", "t", ".", "N", "a", "m", "e", " ", "}", "}">>,
          <<" ", " ", " ", " ", "r", "e", "l", "e", "a", "s", "e", ":", " ", "{", "{", " ", ".", "R", "e", "l", "e", "a", "s", "e", ".", "N", "a", "m", "e", " ", "}", "}">>,
          <<"s", "p", "e", "c", ":">>,
          <<" ", " ", "r", "e", "p", "l", "i", "c", "a", "s", ":", " ", "{", "{", " ", ".", "V", "a", "l", "u", "e", "s", ".", "r", "e", "p", "l", "i", "c", "a", "C", "o", "u", "n", "t", " ", "}", "}">>,
          <<" ", " ", "s", "e", "l", "e", "c", "t", "o", "r", ":">>,
          <<" ", " ", " ", " ", "m", "a", "t", "c", "h", "L", "a", "b", "e", "l", "s", ":">>,
          <<" ", " ", " ", " ", " ", " ", "a", "p", "p", ":", " ", "{", "{", " ", ".", "C", "h", "a", "r", "t", ".", "N", "a", "m", "e", " ", "}", "}">>,
          <<" ", " ", " ", " ", " ", " ", "r", "e", "l", "e", "a", "s", "e", ":", " ", "{", "{", " ", ".", "R", "e", "l", "e", "a", "s", "e", ".", "N", "a", "m", "e", " ", "}", "}">>,
          <<" ", " ", "t", "e", "m", "p", "l", "a", "t", "e", ":">>,
          <<" ", " ", " ", " ", "m", "e", "t", "a", "d", "a", "t", "a", ":">>,
          <<" ", " ", " ", " ", " ", " ", "l", "a", "b", "e", "l", "s", ":">>,
          <<" ", " ", " ", " ", " ", " ", " ", " ", "a", "p", "p", ":", " ", "{", "{", " ", ".", "C", "h", "a", "r", "t", ".", "N", "a", "m", "e", " ", "}", "}">>,
          <<" ", " ", " ", " ", " ", " ", " ", " ", "r", "e", "l", "e", "a", "s", "e", ":", " ", "{", "{", " ", ".", "R", "e", "l", "e", "a", "s", "e", ".", "N", "a", "m", "e", " ", "}", "}">>,
          <<" ", " ", " ", " ", "s", "p", "e", "c", ":">>,
          <<" ", " ", " ", " ", " ", " ", "c", "o", "n", "t", "a", "i", "n", "e", "r", "s", ":">>,
          <<" ", " ", " ", " ", " ", " ", " ", " ", "-", " ", "n", "a", "m", "e", ":", " ", "{", "{", " ", ".", "C", "h", "a", "r", "t", ".", "N", "a", "m", "e", " ", "}", "}">>,
          <<" ", " ", " ", " ", " ", " ", " ", " ", " ", " ", "i", "m", "a", "g", "e", ":", " ", DQ, "{", "{", " ", ".", "V", "a", "l", "u", "e", "s", ".", "i", "m", "a", "g", "e", ".", "r", "e", "p", "o", "s", "i", "t", "o", "r", "y", " ", "}", "}", ":", "{", "{", " ", ".", "V", "a", "l", "u", "e", "s", ".", "i", "m", "a", "g", "e", ".", "t", "a", "g", " ", "}", "}", DQ>>,
          <<" ", " ", " ", " ", " ", " ", " ", " ", " ", " ", "i", "m", "a", "g", "e", "P", "u", "l", "l", "P", "o", "l", "i", "c", "y", ":", " ", "{", "{", " ", ".", "V", "a", "l", "u", "e", "s", ".", "i", "m", "a", "g", "e", ".", "p", "u", "l", "l", "P", "o", "l", "i", "c", "y", " ", "}", "}">>,
          <<" ", " ", " ", " ", " ", " ", " ", " ", " ", " ", "p", "o", "r", "t", "s", ":">>,
          <<" ", " ", " ", " ", " ", " ", " ", " ", " ", " ", " ", " ", "-", " ", "c", "o", "n", "t", "a", "i", "n", "e", "r", "P", "o", "r", "t", ":", " ", "{", "{", " ", ".", "V", "a", "l", "u", "e", "s", ".", "s", "e", "r", "v", "i", "c", "e", ".", "p", "o", "r", "t", " ", "}", "}">> >>, <<NL>>)

\* serviceTemplate()
serviceTemplate ==
  Join(<<
          <<"a", "p", "i", "V", "e", "r", "s", "i", "o", "n", ":", " ", "v", "1">>,
          <<"k", "i", "n", "d", ":", " ", "S", "e", "r", "v", "i", "c", "e">>,
          <<"m", "e", "t", "a", "d", "a", "t", "a", ":">>,
          <<" ", " ", "n", "a", "m", "e", ":", " ", "{", "{", " ", ".", "R", "e", "l", "e", "a", "s", "e", ".", "N", "a", "m", "e", " ", "}", "}", "-", "{", "{", " ", ".", "C", "h", "a", "r", "t", ".", "N", "a", "m", "e", " ", "}", "}">>,
          <<" ", " ", "n", "a", "m", "e", "s", "p", "a", "c", "e", ":", " ", "{", "{", " ", ".", "R", "e", "l", "e", "a", "s", "e", ".", "N", "a", "m", "e", "s", "p", "a", "c", "e", " ", "}", "}">>,
          <<" ", " ", "l", "a", "b", "e", "l", "s", ":">>,
          <<" ", " ", " ", " ", "a", "p", "p", ":", " ", "{", "{", " ", ".", "C", "h", "a", "r", "t", ".", "N", "a", "m", "e", " ", "}", "}">>,
          <<" ", " ", " ", " ", "r", "e", "l", "e", "a", "s", "e", ":", " ", "{", "{", " ", ".", "R", "e", "l", "e", "a", "s", "e", ".", "N", "a", "m", "e", " ", "}", "}">>,
          <<"s", "p", "e", "c", ":">>,
          <<" ", " ", "t", "y", "p", "e", ":", " ", "{", "{", " ", ".", "V", "a", "l", "u", "e", "s", ".", "s", "e", "r", "v", "i", "c", "e", ".", "t", "y", "p", "e", " ", "}", "}">>,
          <<" ", " ", "p", "o", "r", "t", "s", ":">>,
          <<" ", " ", " ", " ", "-", " ", "p", "o", "r", "t", ":", " ", "{", "{", " ", ".", "V", "a", "l", "u", "e", "s", ".", "s", "e", "r", "v", "i", "c", "e", ".", "p", "o", "r", "t", " ", "}", "}">>,
          <<" ", " ", " ", " ", " ", " ", "t", "a", "r", "g", "e", "t", "P", "o", "r", "t", ":", " ", "{", "{", " ", ".", "V", "a", "l", "u", "e", "s", ".", "s", "e", "r", "v", "i", "c", "e", ".", "p", "o", "r", "t", " ", "}", "}">>,
          <<" ", " ", " ", " ", " ", " ", "p", "r", "o", "t", "o", "c", "o", "l", ":", " ", "T", "C", "P">>,
          <<" ", " ", "s", "e", "l", "e", "c", "t", "o", "r", ":">>,
          <<" ", " ", " ", " ", "a", "p", "p", ":", " ", "{", "{", " ", ".", "C", "h", "a", "r", "t", ".", "N", "a", "m", "e", " ", "}", "}">>,
          <<" ", " ", " ", " ", "r", "e", "l", "e", "a", "s", "e", ":", " ", "{", "{", " ", ".", "R", "e", "l", "e", "a", "s", "e", ".", "N", "a", "m", "e", " ", "}", "}">> >>, <<NL>>)

\* ingressTemplate()
ingressTemplate ==
  Join(<<
          <<"a", "p", "i", "V", "e", "r", "s", "i", "o", "n", ":", " ", "n", "e", "t", "w", "o", "r", "k", "i", "n", "g", ".", "k", "8", "s", ".", "i", "o", "/", "v", "1">>,
          <<"k", "i", "n", "d", ":", " ", "I", "n", "g", "r", "e", "s", "s">>,
          <<"m", "e", "t", "a", "d", "a", "t", "a", ":">>,
          <<" ", " ", "n", "a", "m", "e", ":", " ", "{", "{", " ", ".", "R", "e", "l", "e", "a", "s", "e", ".", "N", "a", "m", "e", " ", "}", "}", "-", "{", "{", " ", ".", "C", "h", "a", "r", "t", ".", "N", "a", "m", "e", " ", "}", "}">>,
          <<" ", " ", "n", "a", "m", "e", "s", "p", "a", "c", "e", ":", " ", "{", "{", " ", ".", "R", "e", "l", "e", "a", "s", "e", ".", "N", "a", "m", "e", "s", "p", "a", "c", "e", " ", "}", "}">>,
          <<" ", " ", "l", "a", "b", "e", "l", "s", ":">>,
          <<" ", " ", " ", " ", "a", "p", "p", ":", " ", "{", "{", " ", ".", "C", "h", "a", "r", "t", ".", "N", "a", "m", "e", " ", "}", "}">>,
          <<" ", " ", " ", " ", "r", "e", "l", "e", "a", "s", "e", ":", " ", "{", "{", " ", ".", "R", "e", "l", "e", "a", "s", "e", ".", "N", "a", "m", "e", " ", "}", "}">>,
          <<"s", "p", "e", "c", ":">>,
          <<" ", " ", "r", "u", "l", "e", "s", ":">>,
          <<" ", " ", " ", " ", "-", " ", "h", "o", "s", "t", ":", " ", "{", "{", " ", ".", "V", "a", "l", "u", "e", "s", ".", "i", "n", "g", "r", "e", "s", "s", ".", "h", "o", "s", "t", " ", "}", "}">>,
          <<" ", " ", " ", " ", " ", " ", "h", "t", "t", "p", ":">>,
          <<" ", " ", " ", " ", " ", " ", " ", " ", "p", "a", "t", "h", "s", ":">>,
          <<" ", " ", " ", " ", " ", " ", " ", " ", " ", " ", "-", " ", "p", "a", "t", "h", ":", " ", "/">>,
          <<" ", " ", " ", " ", " ", " ", " ", " ", " ", " ", " ", " ", "p", "a", "t", "h", "T", "y", "p", "e", ":", " ", "P", "r", "e", "f", "i", "x">>,
          <<" ", " ", " ", " ", " ", " ", " ", " ", " ", " ", " ", " ", "b", "a", "c", "k", "e", "n", "d", ":">>,
          <<" ", " ", " ", " ", " ", " ", " ", " ", " ", " ", " ", " ", " ", " ", "s", "e", "r", "v", "i", "c", "e", ":">>,
          <<" ", " ", " ", " ", " ", " ", " ", " ", " ", " ", " ", " ", " ", " ", " ", " ", "n", "a", "m", "e", ":", " ", "{", "{", " ", ".", "R", "e", "l", "e", "a", "s", "e", ".", "N", "a", "m", "e", " ", "}", "}", "-", "{", "{", " ", ".", "C", "h", "a", "r", "t", ".", "N", "a", "m", "e", " ", "}", "}">>,
          <<" ", " ", " ", " ", " ", " ", " ", " ", " ", " ", " ", " ", " ", " ", " ", " ", "p", "o", "r", "t", ":">>,
          <<" ", " ", " ", " ", " ", " ", " ", " ", " ", " ", " ", " ", " ", " ", " ", " ", " ", " ", "n", "u", "m", "b", "e", "r", ":", " ", "{", "{", " ", ".", "V", "a", "l", "u", "e", "s", ".", "s", "e", "r", "v", "i", "c", "e", ".", "p", "o", "r", "t", " ", "}", "}">> >>, <<NL>>)

BuiltInTemplate(name) ==
  CASE name = "deploymentTemplate" -> deploymentTemplate
    [] name = "serviceTemplate" -> serviceTemplate
    [] name = "ingressTemplate" -> ingressTemplate

\* setImage; tag is undefined when the argument is left out
setImage(h, values, repository, tag) ==
  LET image == Field(h, values, <<"i", "m", "a", "g", "e">>)
  IN Store(h, Obj(With(Spread(h, values), <<"i", "m", "a", "g", "e">>,
       Obj(With(With(Spread(h, image), <<"r", "e", "p", "o", "s", "i", "t", "o", "r", "y">>, repository),
                <<"t", "a", "g">>, Coalesce(tag, Field(h, image, <<"t", "a", "g">>)))))))

\* setIngress; className is undefined when the argument is left out
setIngress(h, values, host, className) ==
  LET ingress == Field(h, values, <<"i", "n", "g", "r", "e", "s", "s">>)
  IN Store(h, Obj(With(Spread(h, values), <<"i", "n", "g", "r", "e", "s", "s">>,
       Obj(With(With(With(Spread(h, ingress), <<"e", "n", "a", "b", "l", "e", "d">>, Bool(TRUE)),
                     <<"c", "l", "a", "s", "s", "N", "a", "m", "e">>, Coalesce(className, Field(h, ingress, <<"c", "l", "a", "s", "s", "N", "a", "m", "e">>))),
                <<"h", "o", "s", "t", "s">>,
                Arr(<< Obj(<< <<<<"h", "o", "s", "t">>, host>>,
                              <<<<"p", "a", "t", "h", "s">>,
                                Arr(<< Obj(<< <<<<"p", "a", "t", "h">>, Str(<<"/">>)>>,
                                              <<<<"p", "a", "t", "h", "T", "y", "p", "e">>, Str(<<"P", "r", "e", "f", "i", "x">>)>> >>) >>)>> >>) >>))))))

\* ------------------------------------------- values built and then rendered

\* Largest number of setImage, setIngress and setAutoscaling calls made on the
\* values createValues returned.
MaxValueCalls == 2

\* input is the heap, the values the caller holds, the number of modifier
\* calls made and the built-in template rendered; output is the rendered text

InitValues ==
  /\ input = [heap |-> <<>>, values |-> Undefined, calls |-> 0, template |-> "none"]
  /\ output = <<>>
  /\ op = "none"

\* the state after a builder call that returned r
ValuesReturned(call, r, calls) ==
  /\ input' = [input EXCEPT !.heap = r.heap, !.values = r.value, !.calls = calls]
  /\ op' = call
  /\ UNCHANGED output

CanModifyValues ==
  /\ input.values.t = "ref"
  /\ input.template = "none"
  /\ input.calls < MaxValueCalls

\* createValues, then setImage, setIngress and setAutoscaling on the values
\* held, then renderTemplate on a built-in template with them
NextValues ==
  \/ /\ input.values.t = "undefined"
     /\ \E options \in OptionsOf("HelmValues") :
          LET o == Store(input.heap, options)
          IN ValuesReturned("createValues", createValues(o.heap, o.value), 0)
  \/ /\ CanModifyValues
     /\ \E tag \in {Undefined, Str(<<"v", "2">>)} :
          ValuesReturned("setImage",
                         setImage(input.heap, input.values, Str(<<"r", "e", "d", "i", "s">>), tag),
                         input.calls + 1)
  \/ /\ CanModifyValues
     /\ \E className \in {Undefined, Str(<<"n", "g", "i", "n", "x">>)} :
          ValuesReturned("setIngress",
                         setIngress(input.heap, input.values, Str(<<"a", "p", "p", ".", "e", "x", "a", "m", "p", "l", "e", ".", "c", "o", "m">>), className),
                         input.calls + 1)
  \/ /\ CanModifyValues
     /\ \E enabled \in {Bool(TRUE), Bool(FALSE)},
           options \in {Undefined, Obj(<< <<<<"m", "i", "n">>, Num(2)>>, <<<<"c", "p", "u">>, Num(60)>> >>)} :
          LET a == Store(input.heap, options)
          IN ValuesReturned("setAutoscaling",
                            setAutoscaling(a.heap, input.values, enabled, a.value),
                            input.calls + 1)
  \/ /\ input.values.t = "ref"
     /\ input.template = "none"
     /\ \E name \in {"deploymentTemplate", "serviceTemplate", "ingressTemplate"} :
          /\ input' = [input EXCEPT !.template = name]
          /\ output' = renderTemplate(BuiltInTemplate(name),
                                      ProdContext(Deep(input.heap, input.values)))
     /\ op' = "renderTemplate"

SpecValues == InitValues /\ [][NextValues]_vars

\* the .Values paths a template uses
ValuesPaths(template) ==
  {MatchValues(template, k).path :
     k \in {j \in 1..Len(template) : MatchValues(template, j).end > 0}}

\* C24: after createValues followed by any sequence of setImage, setIngress
\* and setAutoscaling, every .Values path of the built-in template rendered
\* names a field the values have, and no .Values placeholder was replaced by
\* the empty string.
C24_BuiltInPathsExist ==
  (op = "renderTemplate" /\ input.template # "none") =>
    \A path \in ValuesPaths(BuiltInTemplate(input.template)) :
      /\ Walk(Deep(input.heap, input.values), Split(path, ".")) # Absent
      /\ ValuesReplacer(Deep(input.heap, input.values), path) # <<>>

\* ------------------------------------------------ string scalars, continued

RECURSIVE Unescaped(_)
\* text with each `\\` replaced by `\` and each `\"` by `"`, scanning left to
\* right
Unescaped(text) ==
  IF Len(text) = 0 THEN <<>>
  ELSE IF Len(text) >= 2 /\ text[1] = BS /\ text[2] \in {BS, DQ}
       THEN <<text[2]>> \o Unescaped(SubSeq(text, 3, Len(text)))
       ELSE <<text[1]>> \o Unescaped(Tail(text))

\* C25: for every string s that toYAML wraps in double quotes, the text
\* between the outer quotes, unescaped from left to right, is s.
C25_UnescapeGivesBack ==
  (op = "toYAML" /\ input.t = "string" /\ C4_Condition(input.s)) =>
    /\ Len(output) >= 2
    /\ output[1] = DQ
    /\ output[Len(output)] = DQ
    /\ Unescaped(SubSeq(output, 2, Len(output) - 1)) = input.s

\* the string of a double quote and a backslash has been wrapped: each of the
\* two is escaped
C25_Witness ==
  /\ op = "toYAML"
  /\ input = Str(<<DQ, BS>>)
  /\ output = <<DQ, BS, DQ, BS, BS, DQ>>

\* C26: for every string s, toYAML(s) has no line break.
C26_StringOneLine ==
  (op = "toYAML" /\ input.t = "string") => ~Includes(output, NL)

\* the numbers, booleans and null a string is compared with
OtherScalars == {Null, Bool(TRUE), Bool(FALSE)} \cup {Num(n) : n \in -12..123}

\* C27: for every string s and every number, boolean or null v, toYAML(s)
\* differs from toYAML(v).
C27_StringUnlikeOtherTypes ==
  (op = "toYAML" /\ input.t = "string") =>
    \A v \in OtherScalars : output # toYAML(v, 0)

\* ============================================================= validators

\* the dash of the warning texts, which a string literal of the module cannot
\* hold: written with a longer name like the grave accent
EMDASH == "emdash"

\* return { valid: errors.length === 0, errors, warnings } with warnings
\* counted too
ValidationResult_CountWarnings(errors, warnings) ==
  [valid |-> Len(errors) = 0 /\ Len(warnings) = 0, errors |-> errors, warnings |-> warnings]

\* return { valid: errors.length === 0, errors, warnings }
ValidationResult(errors, warnings) ==
  [valid |-> Len(errors) = 0, errors |-> errors, warnings |-> warnings]

\* errors.push / warnings.push under a condition
PushIf(condition, text) == IF condition THEN <<text>> ELSE <<>>

\* the warnings validateContainer pushes
ContainerWarnings(container) ==
  LET name == StringOf(At(container, <<<<"n", "a", "m", "e">>>>))
      resources == At(container, <<<<"r", "e", "s", "o", "u", "r", "c", "e", "s">>>>)
  IN (IF ~Truthy(resources)
      THEN <<<<"C", "o", "n", "t", "a", "i", "n", "e", "r", " ", "'">> \o name \o <<"'", " ", "h", "a", "s", " ", "n", "o", " ", "r", "e", "s", "o", "u", "r", "c", "e", " ", "l", "i", "m", "i", "t", "s", "/", "r", "e", "q", "u", "e", "s", "t", "s">>>>
      ELSE PushIf(~Truthy(At(resources, <<<<"l", "i", "m", "i", "t", "s">>>>)),
                  <<"C", "o", "n", "t", "a", "i", "n", "e", "r", " ", "'">> \o name \o <<"'", " ", "h", "a", "s", " ", "n", "o", " ", "r", "e", "s", "o", "u", "r", "c", "e", " ", "l", "i", "m", "i", "t", "s">>)
             \o PushIf(~Truthy(At(resources, <<<<"r", "e", "q", "u", "e", "s", "t", "s">>>>)),
                       <<"C", "o", "n", "t", "a", "i", "n", "e", "r", " ", "'">> \o name \o <<"'", " ", "h", "a", "s", " ", "n", "o", " ", "r", "e", "s", "o", "u", "r", "c", "e", " ", "r", "e", "q", "u", "e", "s", "t", "s">>))
       \o PushIf(~Truthy(At(container, <<<<"l", "i", "v", "e", "n", "e", "s", "s", "P", "r", "o", "b", "e">>>>)),
                 <<"C", "o", "n", "t", "a", "i", "n", "e", "r", " ", "'">> \o name \o <<"'", " ", "h", "a", "s", " ", "n", "o", " ", "l", "i", "v", "e", "n", "e", "s", "s", " ", "p", "r", "o", "b", "e">>)
       \o PushIf(~Truthy(At(container, <<<<"r", "e", "a", "d", "i", "n", "e", "s", "s", "P", "r", "o", "b", "e">>>>)),
                 <<"C", "o", "n", "t", "a", "i", "n", "e", "r", " ", "'">> \o name \o <<"'", " ", "h", "a", "s", " ", "n", "o", " ", "r", "e", "a", "d", "i", "n", "e", "s", "s", " ", "p", "r", "o", "b", "e">>)

validateDeployment(deployment) ==
  LET containers == At(deployment, <<<<"s", "p", "e", "c">>, <<"t", "e", "m", "p", "l", "a", "t", "e">>, <<"s", "p", "e", "c">>, <<"c", "o", "n", "t", "a", "i", "n", "e", "r", "s">>>>).items
  IN ValidationResult(
       validateDeploymentErrors(deployment),
       Join([i \in 1..Len(containers) |-> ContainerWarnings(containers[i])], <<>>))

\* the errors validateService pushes for one port
PortErrors(service, port) ==
  LET number == At(port, <<<<"p", "o", "r", "t">>>>)
      nodePort == At(port, <<<<"n", "o", "d", "e", "P", "o", "r", "t">>>>)
  IN PushIf(number.n < 1 \/ number.n > 65535,
            <<"P", "o", "r", "t", " ">> \o StringOf(number) \o <<" ", "o", "u", "t", " ", "o", "f", " ", "v", "a", "l", "i", "d", " ", "r", "a", "n", "g", "e", " ", "(", "1", "-", "6", "5", "5", "3", "5", ")">>)
       \o PushIf(/\ At(service, <<<<"s", "p", "e", "c">>, <<"t", "y", "p", "e">>>>) = Str(<<"N", "o", "d", "e", "P", "o", "r", "t">>)
                 /\ Truthy(nodePort)
                 /\ (nodePort.n < 30000 \/ nodePort.n > 32767),
                 <<"N", "o", "d", "e", "P", "o", "r", "t", " ">> \o StringOf(nodePort) \o <<" ", "o", "u", "t", " ", "o", "f", " ", "v", "a", "l", "i", "d", " ", "r", "a", "n", "g", "e", " ", "(", "3", "0", "0", "0", "0", "-", "3", "2", "7", "6", "7", ")">>)

validateService(service) ==
  LET ports == At(service, <<<<"s", "p", "e", "c">>, <<"p", "o", "r", "t", "s">>>>).items
  IN ValidationResult(
       PushIf(~Truthy(At(service, <<<<"m", "e", "t", "a", "d", "a", "t", "a">>, <<"n", "a", "m", "e">>>>)), <<"S", "e", "r", "v", "i", "c", "e", " ", "m", "u", "s", "t", " ", "h", "a", "v", "e", " ", "a", " ", "n", "a", "m", "e">>)
         \o PushIf(Len(ports) = 0, <<"S", "e", "r", "v", "i", "c", "e", " ", "m", "u", "s", "t", " ", "h", "a", "v", "e", " ", "a", "t", " ", "l", "e", "a", "s", "t", " ", "o", "n", "e", " ", "p", "o", "r", "t">>)
         \o Join([i \in 1..Len(ports) |-> PortErrors(service, ports[i])], <<>>),
       PushIf(\/ ~Truthy(At(service, <<<<"s", "p", "e", "c">>, <<"s", "e", "l", "e", "c", "t", "o", "r">>>>))
              \/ Len(At(service, <<<<"s", "p", "e", "c">>, <<"s", "e", "l", "e", "c", "t", "o", "r">>>>).props) = 0,
              <<"S", "e", "r", "v", "i", "c", "e", " ", "h", "a", "s", " ", "n", "o", " ", "s", "e", "l", "e", "c", "t", "o", "r", " ">> \o <<EMDASH>> \o <<" ", "w", "i", "l", "l", " ", "m", "a", "t", "c", "h", " ", "n", "o", " ", "p", "o", "d", "s">>))

RECURSIVE TotalSize(_)
\* Object.values(data).reduce((sum, v) => sum + v.length, 0)
TotalSize(entries) ==
  IF Len(entries) = 0 THEN 0 ELSE Len(entries[1][2].s) + TotalSize(Tail(entries))

validateConfigMap(configMap) ==
  LET data == At(configMap, <<<<"d", "a", "t", "a">>>>)
      binaryData == At(configMap, <<<<"b", "i", "n", "a", "r", "y", "D", "a", "t", "a">>>>)
  IN ValidationResult(
       PushIf(~Truthy(At(configMap, <<<<"m", "e", "t", "a", "d", "a", "t", "a">>, <<"n", "a", "m", "e">>>>)), <<"C", "o", "n", "f", "i", "g", "M", "a", "p", " ", "m", "u", "s", "t", " ", "h", "a", "v", "e", " ", "a", " ", "n", "a", "m", "e">>)
         \o PushIf(Truthy(data) /\ TotalSize(ObjectEntries(data)) > 1048576,
                   <<"C", "o", "n", "f", "i", "g", "M", "a", "p", " ", "d", "a", "t", "a", " ", "e", "x", "c", "e", "e", "d", "s", " ", "1", " ", "M", "i", "B", " ", "l", "i", "m", "i", "t">>),
       PushIf(/\ (~Truthy(data) \/ Len(data.props) = 0)
              /\ (~Truthy(binaryData) \/ Len(binaryData.props) = 0),
              <<"C", "o", "n", "f", "i", "g", "M", "a", "p", " ", "h", "a", "s", " ", "n", "o", " ", "d", "a", "t", "a">>))

validateIngress(ingress) ==
  LET rules == At(ingress, <<<<"s", "p", "e", "c">>, <<"r", "u", "l", "e", "s">>>>).items
  IN ValidationResult(
       PushIf(~Truthy(At(ingress, <<<<"m", "e", "t", "a", "d", "a", "t", "a">>, <<"n", "a", "m", "e">>>>)), <<"I", "n", "g", "r", "e", "s", "s", " ", "m", "u", "s", "t", " ", "h", "a", "v", "e", " ", "a", " ", "n", "a", "m", "e">>)
         \o PushIf(Len(rules) = 0, <<"I", "n", "g", "r", "e", "s", "s", " ", "m", "u", "s", "t", " ", "h", "a", "v", "e", " ", "a", "t", " ", "l", "e", "a", "s", "t", " ", "o", "n", "e", " ", "r", "u", "l", "e">>)
         \o Join([i \in 1..Len(rules) |->
                    PushIf(Len(At(rules[i], <<<<"h", "t", "t", "p">>, <<"p", "a", "t", "h", "s">>>>).items) = 0,
                           <<"I", "n", "g", "r", "e", "s", "s", " ", "r", "u", "l", "e", " ", "m", "u", "s", "t", " ", "h", "a", "v", "e", " ", "a", "t", " ", "l", "e", "a", "s", "t", " ", "o", "n", "e", " ", "p", "a", "t", "h">>)], <<>>),
       Join([i \in 1..Len(rules) |->
               PushIf(~Truthy(At(rules[i], <<<<"h", "o", "s", "t">>>>)),
                      <<"I", "n", "g", "r", "e", "s", "s", " ", "r", "u", "l", "e", " ", "h", "a", "s", " ", "n", "o", " ", "h", "o", "s", "t", " ">> \o <<EMDASH>> \o <<" ", "w", "i", "l", "l", " ", "m", "a", "t", "c", "h", " ", "a", "l", "l", " ", "h", "o", "s", "t", "s">>)], <<>>)
         \o PushIf(~Truthy(At(ingress, <<<<"s", "p", "e", "c">>, <<"i", "n", "g", "r", "e", "s", "s", "C", "l", "a", "s", "s", "N", "a", "m", "e">>>>)),
                   <<"N", "o", " ", "i", "n", "g", "r", "e", "s", "s", " ", "c", "l", "a", "s", "s", " ", "s", "p", "e", "c", "i", "f", "i", "e", "d">>))

validateHPA(hpa) ==
  LET metrics == At(hpa, <<<<"s", "p", "e", "c">>, <<"m", "e", "t", "r", "i", "c", "s">>>>)
  IN ValidationResult(
       PushIf(~Truthy(At(hpa, <<<<"m", "e", "t", "a", "d", "a", "t", "a">>, <<"n", "a", "m", "e">>>>)), <<"H", "P", "A", " ", "m", "u", "s", "t", " ", "h", "a", "v", "e", " ", "a", " ", "n", "a", "m", "e">>)
         \o PushIf(At(hpa, <<<<"s", "p", "e", "c">>, <<"m", "i", "n", "R", "e", "p", "l", "i", "c", "a", "s">>>>).n > At(hpa, <<<<"s", "p", "e", "c">>, <<"m", "a", "x", "R", "e", "p", "l", "i", "c", "a", "s">>>>).n,
                   <<"m", "i", "n", "R", "e", "p", "l", "i", "c", "a", "s", " ", "c", "a", "n", "n", "o", "t", " ", "e", "x", "c", "e", "e", "d", " ", "m", "a", "x", "R", "e", "p", "l", "i", "c", "a", "s">>)
         \o PushIf(~Truthy(At(hpa, <<<<"s", "p", "e", "c">>, <<"s", "c", "a", "l", "e", "T", "a", "r", "g", "e", "t", "R", "e", "f">>, <<"n", "a", "m", "e">>>>)),
                   <<"H", "P", "A", " ", "m", "u", "s", "t", " ", "r", "e", "f", "e", "r", "e", "n", "c", "e", " ", "a", " ", "t", "a", "r", "g", "e", "t", " ", "d", "e", "p", "l", "o", "y", "m", "e", "n", "t">>),
       PushIf(~Truthy(metrics) \/ Len(metrics.items) = 0,
              <<"H", "P", "A", " ", "h", "a", "s", " ", "n", "o", " ", "m", "e", "t", "r", "i", "c", "s", " ">> \o <<EMDASH>> \o <<" ", "a", "u", "t", "o", "s", "c", "a", "l", "i", "n", "g", " ", "w", "i", "l", "l", " ", "h", "a", "v", "e", " ", "n", "o", " ", "t", "a", "r", "g", "e", "t", "s">>))

validateManifest(resource) ==
  LET kind == At(resource, <<<<"k", "i", "n", "d">>>>)
  IN CASE kind = Str(<<"D", "e", "p", "l", "o", "y", "m", "e", "n", "t">>) -> validateDeployment(resource)
       [] kind = Str(<<"S", "e", "r", "v", "i", "c", "e">>) -> validateService(resource)
       [] kind = Str(<<"C", "o", "n", "f", "i", "g", "M", "a", "p">>) -> validateConfigMap(resource)
       [] kind = Str(<<"I", "n", "g", "r", "e", "s", "s">>) -> validateIngress(resource)
       [] kind = Str(<<"H", "o", "r", "i", "z", "o", "n", "t", "a", "l", "P", "o", "d", "A", "u", "t", "o", "s", "c", "a", "l", "e", "r">>) -> validateHPA(resource)
       [] OTHER ->
            ValidationResult(<<>>,
              <<<<"U", "n", "k", "n", "o", "w", "n", " ", "r", "e", "s", "o", "u", "r", "c", "e", " ", "k", "i", "n", "d", ":", " ">>
                  \o (IF kind.t \in {"null", "undefined"} THEN <<"u", "n", "d", "e", "f", "i", "n", "e", "d">> ELSE kind.s)>>)

\* --------------------------------------------------- manifests validated

\* the manifests given to the validators, by kind; Other is the resources of
\* a kind validateManifest has no case for
ManifestInputs(kind) ==
  LET LongString(n) ==
        [i \in 1..n |-> "a"]
      Metadata(name) ==
        Obj(<< <<<<"n", "a", "m", "e">>, name>> >>)
      AppLabel(value) ==
        Obj(<< <<<<"a", "p", "p">>, Str(value)>> >>)
      ContainerInputs ==
        { Arr(<<>>),
          Arr(<< Obj(<< <<<<"n", "a", "m", "e">>, Str(<<"w", "e", "b">>)>>, <<<<"i", "m", "a", "g", "e">>, Str(<<"n", "g", "i", "n", "x">>)>> >>) >>),
          Arr(<< Obj(<< <<<<"n", "a", "m", "e">>, Str(<<"w", "e", "b">>)>>, <<<<"i", "m", "a", "g", "e">>, Str(<<"n", "g", "i", "n", "x">>)>>,
                        <<<<"r", "e", "s", "o", "u", "r", "c", "e", "s">>, Obj(<< <<<<"l", "i", "m", "i", "t", "s">>, Obj(<< <<<<"c", "p", "u">>, Str(<<"5", "0", "0", "m">>)>> >>)>> >>)>>,
                        <<<<"l", "i", "v", "e", "n", "e", "s", "s", "P", "r", "o", "b", "e">>, Obj(<< <<<<"h", "t", "t", "p", "G", "e", "t">>, Obj(<< <<<<"p", "a", "t", "h">>, Str(<<"/", "h", "e", "a", "l", "t", "h", "z">>)>> >>)>> >>)>> >>) >>),
          Arr(<< Obj(<< <<<<"n", "a", "m", "e">>, Str(<<>>)>>, <<<<"i", "m", "a", "g", "e">>, Undefined>> >>),
                 Obj(<< <<<<"n", "a", "m", "e">>, Str(<<"s", "i", "d", "e", "c", "a", "r">>)>>, <<<<"i", "m", "a", "g", "e">>, Str(<<"e", "n", "v", "o", "y">>)>> >>) >>) }
      PortInputs ==
        { Arr(<<>>),
          Arr(<< Obj(<< <<<<"p", "o", "r", "t">>, Num(80)>> >>) >>),
          Arr(<< Obj(<< <<<<"p", "o", "r", "t">>, Num(0)>> >>) >>),
          Arr(<< Obj(<< <<<<"p", "o", "r", "t">>, Num(65536)>> >>), Obj(<< <<<<"p", "o", "r", "t">>, Num(443)>> >>) >>),
          Arr(<< Obj(<< <<<<"p", "o", "r", "t">>, Num(80)>>, <<<<"n", "o", "d", "e", "P", "o", "r", "t">>, Num(30080)>> >>) >>),
          Arr(<< Obj(<< <<<<"p", "o", "r", "t">>, Num(80)>>, <<<<"n", "o", "d", "e", "P", "o", "r", "t">>, Num(8080)>> >>) >>) }
      IngressPaths ==
        Arr(<< Obj(<< <<<<"p", "a", "t", "h">>, Str(<<"/">>)>>, <<<<"p", "a", "t", "h", "T", "y", "p", "e">>, Str(<<"P", "r", "e", "f", "i", "x">>)>> >>) >>)
      RuleInputs ==
        { Arr(<<>>),
          Arr(<< Obj(<< <<<<"h", "o", "s", "t">>, Str(<<"a", ".", "e", "x", "a", "m", "p", "l", "e">>)>>, <<<<"h", "t", "t", "p">>, Obj(<< <<<<"p", "a", "t", "h", "s">>, IngressPaths>> >>)>> >>) >>),
          Arr(<< Obj(<< <<<<"h", "o", "s", "t">>, Undefined>>, <<<<"h", "t", "t", "p">>, Obj(<< <<<<"p", "a", "t", "h", "s">>, IngressPaths>> >>)>> >>) >>),
          Arr(<< Obj(<< <<<<"h", "o", "s", "t">>, Str(<<"a", ".", "e", "x", "a", "m", "p", "l", "e">>)>>, <<<<"h", "t", "t", "p">>, Obj(<< <<<<"p", "a", "t", "h", "s">>, IngressPaths>> >>)>> >>),
                 Obj(<< <<<<"h", "o", "s", "t">>, Str(<<>>)>>, <<<<"h", "t", "t", "p">>, Obj(<< <<<<"p", "a", "t", "h", "s">>, Arr(<<>>)>> >>)>> >>) >>) }
  IN CASE kind = "Deployment" ->
            { Obj(<< <<<<"a", "p", "i", "V", "e", "r", "s", "i", "o", "n">>, Str(<<"a", "p", "p", "s", "/", "v", "1">>)>>,
                     <<<<"k", "i", "n", "d">>, Str(<<"D", "e", "p", "l", "o", "y", "m", "e", "n", "t">>)>>,
                     <<<<"m", "e", "t", "a", "d", "a", "t", "a">>, Metadata(name)>>,
                     <<<<"s", "p", "e", "c">>,
                       Obj(<< <<<<"r", "e", "p", "l", "i", "c", "a", "s">>, replicas>>,
                              <<<<"s", "e", "l", "e", "c", "t", "o", "r">>, Obj(<< <<<<"m", "a", "t", "c", "h", "L", "a", "b", "e", "l", "s">>, AppLabel(<<"w", "e", "b">>)>> >>)>>,
                              <<<<"t", "e", "m", "p", "l", "a", "t", "e">>,
                                Obj(<< <<<<"m", "e", "t", "a", "d", "a", "t", "a">>, templateMetadata>>,
                                       <<<<"s", "p", "e", "c">>, Obj(<< <<<<"c", "o", "n", "t", "a", "i", "n", "e", "r", "s">>, containers>> >>)>> >>)>> >>)>> >>) :
                name \in {Str(<<>>), Str(<<"w", "e", "b">>), Str(LongString(254))},
                replicas \in {Undefined, Num(-1), Num(0), Num(2)},
                templateMetadata \in {Undefined, Obj(<< <<<<"l", "a", "b", "e", "l", "s">>, AppLabel(<<"w", "e", "b">>)>> >>),
                                      Obj(<< <<<<"l", "a", "b", "e", "l", "s">>, AppLabel(<<"o", "t", "h", "e", "r">>)>> >>)},
                containers \in ContainerInputs }
       [] kind = "Service" ->
            { Obj(<< <<<<"a", "p", "i", "V", "e", "r", "s", "i", "o", "n">>, Str(<<"v", "1">>)>>,
                     <<<<"k", "i", "n", "d">>, Str(<<"S", "e", "r", "v", "i", "c", "e">>)>>,
                     <<<<"m", "e", "t", "a", "d", "a", "t", "a">>, Metadata(name)>>,
                     <<<<"s", "p", "e", "c">>, Obj(<< <<<<"t", "y", "p", "e">>, type>>, <<<<"p", "o", "r", "t", "s">>, ports>>,
                                        <<<<"s", "e", "l", "e", "c", "t", "o", "r">>, selector>> >>)>> >>) :
                name \in {Str(<<>>), Str(<<"s", "v", "c">>)},
                type \in {Undefined, Str(<<"C", "l", "u", "s", "t", "e", "r", "I", "P">>), Str(<<"N", "o", "d", "e", "P", "o", "r", "t">>)},
                ports \in PortInputs,
                selector \in {Undefined, Obj(<<>>), AppLabel(<<"w", "e", "b">>)} }
       [] kind = "ConfigMap" ->
            { Obj(<< <<<<"a", "p", "i", "V", "e", "r", "s", "i", "o", "n">>, Str(<<"v", "1">>)>>,
                     <<<<"k", "i", "n", "d">>, Str(<<"C", "o", "n", "f", "i", "g", "M", "a", "p">>)>>,
                     <<<<"m", "e", "t", "a", "d", "a", "t", "a">>, Metadata(name)>>,
                     <<<<"d", "a", "t", "a">>, data>>,
                     <<<<"b", "i", "n", "a", "r", "y", "D", "a", "t", "a">>, binaryData>> >>) :
                name \in {Str(<<>>), Str(<<"c", "f", "g">>)},
                data \in {Undefined, Obj(<<>>), Obj(<< <<<<"k">>, Str(<<"v">>)>> >>),
                          Obj(<< <<<<"k">>, Str(<<"v">>)>>, <<<<"b", "i", "g">>, Str(LongString(1048576))>> >>)},
                binaryData \in {Undefined, Obj(<< <<<<"b">>, Str(<<"A", "A", "=", "=">>)>> >>)} }
       [] kind = "Ingress" ->
            { Obj(<< <<<<"a", "p", "i", "V", "e", "r", "s", "i", "o", "n">>, Str(<<"n", "e", "t", "w", "o", "r", "k", "i", "n", "g", ".", "k", "8", "s", ".", "i", "o", "/", "v", "1">>)>>,
                     <<<<"k", "i", "n", "d">>, Str(<<"I", "n", "g", "r", "e", "s", "s">>)>>,
                     <<<<"m", "e", "t", "a", "d", "a", "t", "a">>, Metadata(name)>>,
                     <<<<"s", "p", "e", "c">>, Obj(<< <<<<"i", "n", "g", "r", "e", "s", "s", "C", "l", "a", "s", "s", "N", "a", "m", "e">>, className>>, <<<<"r", "u", "l", "e", "s">>, rules>> >>)>> >>) :
                name \in {Str(<<>>), Str(<<"i", "n", "g">>)},
                className \in {Undefined, Str(<<"n", "g", "i", "n", "x">>)},
                rules \in RuleInputs }
       [] kind = "HorizontalPodAutoscaler" ->
            { Obj(<< <<<<"a", "p", "i", "V", "e", "r", "s", "i", "o", "n">>, Str(<<"a", "u", "t", "o", "s", "c", "a", "l", "i", "n", "g", "/", "v", "2">>)>>,
                     <<<<"k", "i", "n", "d">>, Str(<<"H", "o", "r", "i", "z", "o", "n", "t", "a", "l", "P", "o", "d", "A", "u", "t", "o", "s", "c", "a", "l", "e", "r">>)>>,
                     <<<<"m", "e", "t", "a", "d", "a", "t", "a">>, Metadata(name)>>,
                     <<<<"s", "p", "e", "c">>,
                       Obj(<< <<<<"s", "c", "a", "l", "e", "T", "a", "r", "g", "e", "t", "R", "e", "f">>,
                                Obj(<< <<<<"a", "p", "i", "V", "e", "r", "s", "i", "o", "n">>, Str(<<"a", "p", "p", "s", "/", "v", "1">>)>>, <<<<"k", "i", "n", "d">>, Str(<<"D", "e", "p", "l", "o", "y", "m", "e", "n", "t">>)>>,
                                       <<<<"n", "a", "m", "e">>, target>> >>)>>,
                              <<<<"m", "i", "n", "R", "e", "p", "l", "i", "c", "a", "s">>, Num(range[1])>>,
                              <<<<"m", "a", "x", "R", "e", "p", "l", "i", "c", "a", "s">>, Num(range[2])>>,
                              <<<<"m", "e", "t", "r", "i", "c", "s">>, metrics>> >>)>> >>) :
                name \in {Str(<<>>), Str(<<"h", "p", "a">>)},
                target \in {Str(<<>>), Str(<<"w", "e", "b">>)},
                range \in {<<1, 10>>, <<3, 3>>, <<5, 2>>},
                metrics \in {Undefined, Arr(<<>>), Arr(<<ResourceMetric(Str(<<"c", "p", "u">>), Num(70))>>)} }
       [] kind = "Other" ->
            { Obj(<< <<<<"k", "i", "n", "d">>, other>>, <<<<"m", "e", "t", "a", "d", "a", "t", "a">>, Metadata(Str(<<"x">>))>> >>) :
                other \in {Undefined, Null, Str(<<"U", "n", "k", "n", "o", "w", "n">>), Str(<<"d", "e", "p", "l", "o", "y", "m", "e", "n", "t">>), Str(<<"S", "e", "c", "r", "e", "t">>)} }

InitValidate ==
  /\ input \in UNION {ManifestInputs(kind) :
                        kind \in {"Deployment", "Service", "ConfigMap", "Ingress",
                                  "HorizontalPodAutoscaler", "Other"}}
  /\ output = <<>>
  /\ op = "none"

\* the state after a validator returned result
Validated(validator, result) ==
  /\ op = "none"
  /\ output' = result
  /\ op' = validator
  /\ UNCHANGED input

NextValidate ==
  \/ /\ input \in ManifestInputs("Deployment")
     /\ Validated("validateDeployment", validateDeployment(input))
  \/ /\ input \in ManifestInputs("Service")
     /\ Validated("validateService", validateService(input))
  \/ /\ input \in ManifestInputs("ConfigMap")
     /\ Validated("validateConfigMap", validateConfigMap(input))
  \/ /\ input \in ManifestInputs("Ingress")
     /\ Validated("validateIngress", validateIngress(input))
  \/ /\ input \in ManifestInputs("HorizontalPodAutoscaler")
     /\ Validated("validateHPA", validateHPA(input))
  \/ Validated("validateManifest", validateManifest(input))

SpecValidate == InitValidate /\ [][NextValidate]_vars

\* the errors and the warnings each validator's code pushes for a resource,
\* read off the validator's result
IsValidated == op \in {"validateDeployment", "validateService", "validateConfigMap",
                       "validateIngress", "validateHPA", "validateManifest"}

\* C28: every validator returns valid = true exactly when the errors it
\* returns are none, whatever its warnings, and validateManifest on a kind it
\* has no case for returns valid, no errors and the one warning
\* `Unknown resource kind: <kind>`.
C28_ValidIffNoErrors ==
  IsValidated =>
    /\ output.valid = (output.errors = <<>>)
    /\ (op = "validateManifest" /\ input \in ManifestInputs("Other")) =>
         /\ output.valid
         /\ output.errors = <<>>
         /\ Len(output.warnings) = 1
         /\ output.warnings[1] =
              <<"U", "n", "k", "n", "o", "w", "n", " ", "r", "e", "s", "o", "u", "r", "c", "e", " ", "k", "i", "n", "d", ":", " ">>
                \o (IF At(input, <<<<"k", "i", "n", "d">>>>).t = "string"
                    THEN At(input, <<<<"k", "i", "n", "d">>>>).s ELSE <<"u", "n", "d", "e", "f", "i", "n", "e", "d">>)

\* validateManifest has returned for a resource of kind Unknown: valid, with
\* one warning
C28_Witness ==
  /\ op = "validateManifest"
  /\ At(input, <<<<"k", "i", "n", "d">>>>) = Str(<<"U", "n", "k", "n", "o", "w", "n">>)
  /\ output.valid
  /\ Len(output.warnings) = 1

\* ========================================================= utils/labels.ts

\* /^[a-zA-Z0-9]([<inner>]*[a-zA-Z0-9])?$/.test(s), inner the characters the
\* class in the middle adds to the letters and digits
TestLabelPattern(s, inner) ==
  /\ Len(s) >= 1
  /\ IsWordChar(s[1]) /\ s[1] # "_"
  /\ IsWordChar(s[Len(s)]) /\ s[Len(s)] # "_"
  /\ \A i \in 2..(Len(s) - 1) : (IsWordChar(s[i]) /\ s[i] # "_") \/ s[i] \in inner

isValidLabelKey(key) ==
  LET parts == Split(key, "/")
      name == IF Len(parts) = 2 THEN parts[2] ELSE parts[1]
      prefix == IF Len(parts) = 2 THEN Str(parts[1]) ELSE Undefined
  IN IF Len(parts) > 2 THEN FALSE
     ELSE IF Len(name) = 0 \/ Len(name) > 63 THEN FALSE
     ELSE IF ~TestLabelPattern(name, {".", "_", "-"}) THEN FALSE
     ELSE IF Truthy(prefix) /\ Len(prefix.s) > 253 THEN FALSE
     ELSE IF Truthy(prefix) /\ ~TestLabelPattern(prefix.s, {".", "-"}) THEN FALSE
     ELSE TRUE

\* Largest length of a generated label key.
MaxKeyLen == 3

\* the generated keys, and keys at the two length limits
LabelKeyInputs ==
  UNION {[1..n -> {"a", "Z", "1", "-", "_", ".", "/"}] : n \in 0..MaxKeyLen}
    \cup { <<"a", "p", "p">>, <<"a", "p", "p", ".", "k", "u", "b", "e", "r", "n", "e", "t", "e", "s", ".", "i", "o", "/", "n", "a", "m", "e">>, <<"-", "a", "p", "p">>, <<"a", "/", "b", "/", "c">>, <<"a", "_", "b", "/", "c">>, <<"a", "/", "b", "_", "c">>,
           [i \in 1..63 |-> "a"], [i \in 1..64 |-> "a"],
           [i \in 1..253 |-> "a"] \o <<"/", "a">>, [i \in 1..254 |-> "a"] \o <<"/", "a">>,
           <<"a", "/">> \o [i \in 1..64 |-> "a"] }

InitLabels ==
  /\ input \in LabelKeyInputs
  /\ output = <<>>
  /\ op = "none"

NextLabels ==
  /\ op = "none"
  /\ output' = isValidLabelKey(input)
  /\ op' = "isValidLabelKey"
  /\ UNCHANGED input

SpecLabels == InitLabels /\ [][NextLabels]_vars

IsAlphanumeric(c) == IsWordChar(c) /\ c # "_"

\* C29: isValidLabelKey(key) is true only when the key has at most one `/`,
\* its name part (after the `/`, the whole key without one) has 1 to 63
\* characters and starts and ends with a letter or digit, and, with a `/`, the
\* prefix before it is non-empty, has at most 253 characters and starts and
\* ends with a letter or digit.
C29_ValidKeyShape ==
  (op = "isValidLabelKey" /\ output = TRUE) =>
    LET slashes == Count(input, "/")
        at == IndexOf(input, "/")
        name == IF slashes = 0 THEN input ELSE SubSeq(input, at + 2, Len(input))
        prefix == SubSeq(input, 1, at)
    IN /\ slashes <= 1
       /\ Len(name) >= 1
       /\ Len(name) <= 63
       /\ IsAlphanumeric(name[1])
       /\ IsAlphanumeric(name[Len(name)])
       /\ slashes = 1 =>
            /\ Len(prefix) >= 1
            /\ Len(prefix) <= 253
            /\ IsAlphanumeric(prefix[1])
            /\ IsAlphanumeric(prefix[Len(prefix)])

====
